---------------------------- MODULE Spec2Model ----------------------------
(***************************************************************************)
(* Model of firmware/src/platforms.py: the built-in platform registry, the *)
(* loading of ~/.sailfish_platforms.py by exec into a scratch namespace,   *)
(* the merge of that namespace's 'platforms' mapping into the registry and *)
(* the enumeration printed when the file is run as a script.               *)
(*                                                                         *)
(* Python objects live in a heap (a sequence of dicts, a reference is an   *)
(* index), so that "the same object" and "an equal object" differ.  A dict *)
(* is [keys, at]: keys is its iteration order, at its key -> value map.    *)
(* A define string is a TLA+ string; Chars gives its characters.           *)
(***************************************************************************)
EXTENDS Integers, Sequences, FiniteSets

VARIABLES
    pc,         \* position in the module's top-level code
    heap,       \* the dict objects, by reference
    mod_dict,   \* the module's global names -> reference
    tmp_dict,   \* the namespace handed to exec: names -> reference
    site,       \* ~/.sailfish_platforms.py: exists or not, and its statements
    name_main,  \* whether __name__ == '__main__'
    ip,         \* exec: 0 before compilation, then the statement to run next
    err,        \* the exception that ended the module's execution, or "none"
    out,        \* what was written to standard output (tokens)
    dirs,       \* define composition: the directive list being composed
    ci,         \* define composition: number of directives applied
    cmap,       \* define composition: the mapping built so far
    cerr,       \* define composition: the error outcome, or no error
    calls,      \* the callers of the loaded module: what each is doing
    seen,       \* the first outcome of resolving each id, by id
    listed      \* the first finished enumeration, if any

vars == << pc, heap, mod_dict, tmp_dict, site, name_main, ip, err, out,
           dirs, ci, cmap, cerr, calls, seen, listed >>

loadVars == << pc, heap, mod_dict, tmp_dict, site, name_main, ip, err, out >>

composeVars == << dirs, ci, cmap, cerr >>

callVars == << calls, seen, listed >>

Range(s) == { s[i] : i \in 1..Len(s) }

Reverse(s) == [ i \in 1..Len(s) |-> s[Len(s) + 1 - i] ]

(***************************************************************************)
(* Bounds.                                                                 *)
(***************************************************************************)
MaxStmts == 2

MaxDirs == 3

MaxCalls == 2

MaxKeys == 3

(***************************************************************************)
(* The baseline registry: the dict display bound to the name platforms.    *)
(***************************************************************************)
BaselineIds ==
    << "mighty_one-hyper-zmax", "mighty_one-hyper", "mighty_one",
       "mighty_one-architect-hyper-zmax", "mighty_one-architect-hyper",
       "mighty_one-architect", "mighty_one-corexy-hyper-zmax",
       "mighty_one-corexy-hyper", "mighty_one-corexy",
       "mighty_one-2560-zmax", "mighty_one-2560", "CTC_BizerMod-2560-zmax",
       "CTC_BizerMod-2560", "CTC_BondtechDualDrive-2560",
       "mighty_one-2560-corexy-zmax", "mighty_one-2560-corexy",
       "mighty_one-2560-clone-r1-zmax", "mighty_one-2560-clone-r1",
       "mighty_one-2560-max31855-corexy-zmax",
       "mighty_one-2560-max31855-corexy", "mighty_one-2560-max31855-zmax",
       "mighty_one-2560-max31855", "mighty_two-hyper-zmax",
       "mighty_two-hyper", "mighty_two-corexy-hyper-zmax",
       "mighty_two-corexy-hyper", "mighty_two", "mighty_two-corexy",
       "mighty_two-2560-zmax", "mighty_two-2560", "mighty_twox-hyper-zmax",
       "mighty_twox-hyper", "mighty_twox", "mighty_twox-2560-zmax",
       "mighty_twox-2560", "ff_creator-hyper-zmax", "ff_creator-hyper",
       "ff_creator", "ff_creator-2560-zmax", "ff_creator-2560",
       "ff_creatorx-2560-zmax", "ff_creatorx-2560", "wanhao_dup4-hyper-zmax",
       "wanhao_dup4-hyper", "zyyx-1280-hyper", "wanhao_dup4", "zyyx-1280",
       "zyyx-2560", "zyyx-dual-2560", "azteeg-x3-xymax",
       "azteeg-x3-xymax-corexy", "azteeg-x3-xymin", "azteeg-x3-xymin-corexy" >>

BaselineProfile(id) ==
    CASE id = "mighty_one-hyper-zmax" ->
        [ mcu |-> "atmega1280",
          programmer |-> "stk500v1",
          board_directory |-> "mighty_one",
          defines |-> << "BUILD_STATS", "AUTO_LEVEL", "USE_ZMAX_HOME",
                         "PSTOP_ZMIN_LEVEL",
                         "AUTO_LEVEL_IGNORE_ZMIN_ONBUILD", "HAS_RGB_LED",
                         "EEPROM_MENU_ENABLE", "COOLING_FAN_PWM",
                         "PLATFORM_SPLASH1_MSG=\\\"SF-Replicator1\\\"",
                         "PLATFORM_THE_REPLICATOR_STR=\\\"Replicator 1\\\"" >> ]
      [] id = "mighty_one-hyper" ->
        [ mcu |-> "atmega1280",
          programmer |-> "stk500v1",
          board_directory |-> "mighty_one",
          defines |-> << "BUILD_STATS", "AUTO_LEVEL", "PSTOP_ZMIN_LEVEL",
                         "AUTO_LEVEL_IGNORE_ZMIN_ONBUILD", "HAS_RGB_LED",
                         "EEPROM_MENU_ENABLE", "COOLING_FAN_PWM",
                         "PLATFORM_SPLASH1_MSG=\\\"SF-Replicator1\\\"",
                         "PLATFORM_THE_REPLICATOR_STR=\\\"Replicator 1\\\"" >> ]
      [] id = "mighty_one" ->
        [ mcu |-> "atmega1280",
          programmer |-> "stk500v1",
          board_directory |-> "mighty_one",
          defines |-> << "HAS_RGB_LED", "EEPROM_MENU_ENABLE",
                         "COOLING_FAN_PWM",
                         "PLATFORM_SPLASH1_MSG=\\\"SF-Replicator1\\\"",
                         "PLATFORM_THE_REPLICATOR_STR=\\\"Replicator 1\\\"" >> ]
      [] id = "mighty_one-architect-hyper-zmax" ->
        [ mcu |-> "atmega1280",
          programmer |-> "stk500v1",
          board_directory |-> "mighty_one",
          defines |-> << "AUTO_LEVEL", "PSTOP_ZMIN_LEVEL",
                         "AUTO_LEVEL_IGNORE_ZMIN_ONBUILD", "SINGLE_EXTRUDER",
                         "BUILD_STATS", "EEPROM_MENU_ENABLE",
                         "PLATFORM_HBP_PRESENT=0", "COOLING_FAN_PWM",
                         "PLATFORM_EXTRUDERS=1", "USE_ZMAX_HOME",
                         "PLATFORM_SPLASH1_MSG=\\\"SF-Architect\\\"",
                         "PLATFORM_THE_REPLICATOR_STR=\\\"Architect\\\"" >> ]
      [] id = "mighty_one-architect-hyper" ->
        [ mcu |-> "atmega1280",
          programmer |-> "stk500v1",
          board_directory |-> "mighty_one",
          defines |-> << "AUTO_LEVEL", "PSTOP_ZMIN_LEVEL",
                         "AUTO_LEVEL_IGNORE_ZMIN_ONBUILD", "SINGLE_EXTRUDER",
                         "BUILD_STATS", "EEPROM_MENU_ENABLE",
                         "PLATFORM_HBP_PRESENT=0", "COOLING_FAN_PWM",
                         "PLATFORM_EXTRUDERS=1",
                         "PLATFORM_SPLASH1_MSG=\\\"SF-Architect\\\"",
                         "PLATFORM_THE_REPLICATOR_STR=\\\"Architect\\\"" >> ]
      [] id = "mighty_one-architect" ->
        [ mcu |-> "atmega1280",
          programmer |-> "stk500v1",
          board_directory |-> "mighty_one",
          defines |-> << "SINGLE_EXTRUDER", "BUILD_STATS",
                         "EEPROM_MENU_ENABLE", "PLATFORM_HBP_PRESENT=0",
                         "COOLING_FAN_PWM", "PLATFORM_EXTRUDERS=1",
                         "PLATFORM_SPLASH1_MSG=\\\"SF-Architect\\\"",
                         "PLATFORM_THE_REPLICATOR_STR=\\\"Architect\\\"" >> ]
      [] id = "mighty_one-corexy-hyper-zmax" ->
        [ mcu |-> "atmega1280",
          programmer |-> "stk500v1",
          board_directory |-> "mighty_one",
          defines |-> << "AUTO_LEVEL", "PSTOP_ZMIN_LEVEL",
                         "AUTO_LEVEL_IGNORE_ZMIN_ONBUILD", "CORE_XY",
                         "HEATERS_ON_STEROIDS", "BUILD_STATS",
                         "USE_ZMAX_HOME", "COOLING_FAN_PWM", "HAS_RGB_LED",
                         "EEPROM_MENU_ENABLE",
                         "PLATFORM_SPLASH1_MSG=\\\"SF-Rep1 CoreXY\\\"",
                         "PLATFORM_THE_REPLICATOR_STR=\\\"Rep1 CoreXY\\\"" >> ]
      [] id = "mighty_one-corexy-hyper" ->
        [ mcu |-> "atmega1280",
          programmer |-> "stk500v1",
          board_directory |-> "mighty_one",
          defines |-> << "AUTO_LEVEL", "PSTOP_ZMIN_LEVEL",
                         "AUTO_LEVEL_IGNORE_ZMIN_ONBUILD", "CORE_XY",
                         "HEATERS_ON_STEROIDS", "BUILD_STATS",
                         "COOLING_FAN_PWM", "HAS_RGB_LED",
                         "EEPROM_MENU_ENABLE",
                         "PLATFORM_SPLASH1_MSG=\\\"SF-Rep1 CoreXY\\\"",
                         "PLATFORM_THE_REPLICATOR_STR=\\\"Rep1 CoreXY\\\"" >> ]
      [] id = "mighty_one-corexy" ->
        [ mcu |-> "atmega1280",
          programmer |-> "stk500v1",
          board_directory |-> "mighty_one",
          defines |-> << "CORE_XY", "HEATERS_ON_STEROIDS", "BUILD_STATS",
                         "COOLING_FAN_PWM", "HAS_RGB_LED",
                         "EEPROM_MENU_ENABLE",
                         "PLATFORM_SPLASH1_MSG=\\\"SF-Rep1 CoreXY\\\"",
                         "PLATFORM_THE_REPLICATOR_STR=\\\"Rep1 CoreXY\\\"" >> ]
      [] id = "mighty_one-2560-zmax" ->
        [ mcu |-> "atmega2560",
          programmer |-> "stk500v2",
          board_directory |-> "mighty_one",
          defines |-> << "BUILD_STATS", "ALTERNATE_UART", "AUTO_LEVEL",
                         "AUTO_LEVEL_IGNORE_ZMIN_ONBUILD",
                         "PSTOP_ZMIN_LEVEL", "HAS_RGB_LED",
                         "COOLING_FAN_PWM", "USE_ZMAX_HOME",
                         "PLATFORM_SPLASH1_MSG=\\\"SF-Replicator1\\\"",
                         "PLATFORM_THE_REPLICATOR_STR=\\\"Replicator 1\\\"",
                         "EEPROM_MENU_ENABLE", "RGB_LED_MENU" >> ]
      [] id = "mighty_one-2560" ->
        [ mcu |-> "atmega2560",
          programmer |-> "stk500v2",
          board_directory |-> "mighty_one",
          defines |-> << "BUILD_STATS", "ALTERNATE_UART", "AUTO_LEVEL",
                         "AUTO_LEVEL_IGNORE_ZMIN_ONBUILD",
                         "PSTOP_ZMIN_LEVEL", "HAS_RGB_LED",
                         "COOLING_FAN_PWM",
                         "PLATFORM_SPLASH1_MSG=\\\"SF-Replicator1\\\"",
                         "PLATFORM_THE_REPLICATOR_STR=\\\"Replicator 1\\\"",
                         "EEPROM_MENU_ENABLE", "RGB_LED_MENU" >> ]
      [] id = "CTC_BizerMod-2560-zmax" ->
        [ mcu |-> "atmega2560",
          programmer |-> "stk500v2",
          board_directory |-> "mighty_one",
          defines |-> << "BUILD_STATS", "ALTERNATE_UART", "AUTO_LEVEL",
                         "USE_ZMAX_HOME", "PSTOP_ZMIN_LEVEL",
                         "AUTO_LEVEL_IGNORE_ZMIN_ONBUILD", "COOLING_FAN_PWM",
                         "PLATFORM_SPLASH1_MSG=\\\"SF-CTC Bizer\\\"",
                         "PLATFORM_THE_REPLICATOR_STR=\\\"CTC Bizer v2\\\"",
                         "EEPROM_MENU_ENABLE" >> ]
      [] id = "CTC_BizerMod-2560" ->
        [ mcu |-> "atmega2560",
          programmer |-> "stk500v2",
          board_directory |-> "mighty_one",
          defines |-> << "BUILD_STATS", "ALTERNATE_UART", "AUTO_LEVEL",
                         "PSTOP_ZMIN_LEVEL",
                         "AUTO_LEVEL_IGNORE_ZMIN_ONBUILD", "COOLING_FAN_PWM",
                         "PLATFORM_SPLASH1_MSG=\\\"SF-CTC Bizer\\\"",
                         "PLATFORM_THE_REPLICATOR_STR=\\\"CTC Bizer v2\\\"",
                         "EEPROM_MENU_ENABLE" >> ]
      [] id = "CTC_BondtechDualDrive-2560" ->
        [ mcu |-> "atmega2560",
          programmer |-> "stk500v2",
          board_directory |-> "mighty_one",
          defines |-> << "BUILD_STATS", "ALTERNATE_UART", "AUTO_LEVEL",
                         "PSTOP_ZMIN_LEVEL",
                         "AUTO_LEVEL_IGNORE_ZMIN_ONBUILD", "COOLING_FAN_PWM",
                         "PLATFORM_SPLASH1_MSG=\\\"SF-CTC Bizer \\\"",
                         "USE_ZMAX_HOME",
                         "PLATFORM_THE_REPLICATOR_STR=\\\"CTC Bizer v2\\\"",
                         "PLATFORM_TOOLHEAD_OFFSET_X=3624",
                         "PLATFORM_AXIS_STEPS_PER_MM={94139704, 94139704, 400000000, 147773066, 147773066}",
                         "EEPROM_MENU_ENABLE" >> ]
      [] id = "mighty_one-2560-corexy-zmax" ->
        [ mcu |-> "atmega2560",
          programmer |-> "stk500v2",
          board_directory |-> "mighty_one",
          defines |-> << "CORE_XY", "BUILD_STATS", "ALTERNATE_UART",
                         "AUTO_LEVEL_IGNORE_ZMIN_ONBUILD",
                         "HEATERS_ON_STEROIDS", "AUTO_LEVEL", "HAS_RGB_LED",
                         "PSTOP_ZMIN_LEVEL", "COOLING_FAN_PWM",
                         "USE_ZMAX_HOME",
                         "PLATFORM_SPLASH1_MSG=\\\"SF-Rep1 CoreXY\\\"",
                         "PLATFORM_THE_REPLICATOR_STR=\\\"Rep1 CoreXY\\\"",
                         "EEPROM_MENU_ENABLE", "RGB_LED_MENU" >> ]
      [] id = "mighty_one-2560-corexy" ->
        [ mcu |-> "atmega2560",
          programmer |-> "stk500v2",
          board_directory |-> "mighty_one",
          defines |-> << "CORE_XY", "BUILD_STATS", "ALTERNATE_UART",
                         "AUTO_LEVEL_IGNORE_ZMIN_ONBUILD",
                         "HEATERS_ON_STEROIDS", "AUTO_LEVEL", "HAS_RGB_LED",
                         "PSTOP_ZMIN_LEVEL", "COOLING_FAN_PWM",
                         "PLATFORM_SPLASH1_MSG=\\\"SF-Rep1 CoreXY\\\"",
                         "PLATFORM_THE_REPLICATOR_STR=\\\"Rep1 CoreXY\\\"",
                         "EEPROM_MENU_ENABLE", "RGB_LED_MENU" >> ]
      [] id = "mighty_one-2560-clone-r1-zmax" ->
        [ mcu |-> "atmega2560",
          programmer |-> "stk500v2",
          board_directory |-> "mighty_one",
          defines |-> << "CORE_XY", "BUILD_STATS", "ALTERNATE_UART",
                         "AUTO_LEVEL_IGNORE_ZMIN_ONBUILD",
                         "HEATERS_ON_STEROIDS", "AUTO_LEVEL", "HAS_RGB_LED",
                         "PSTOP_ZMIN_LEVEL", "COOLING_FAN_PWM",
                         "USE_ZMAX_HOME",
                         "PLATFORM_SPLASH1_MSG=\\\"SF-Clone R1 \\\"",
                         "PLATFORM_THE_REPLICATOR_STR=\\\"CloneR1\\\"",
                         "PLATFORM_X_OFFSET_STEPS=14444L",
                         "PLATFORM_Y_OFFSET_STEPS=8667L",
                         "PLATFORM_AXIS_LENGTHS={300L, 195L, 210L, 100000L, 100000L}",
                         "PLATFORM_AXIS_STEPS_PER_MM={88888889, 88888889, 400000000, 96275202, 96275202}",
                         "EEPROM_MENU_ENABLE", "CLONE_R1", "RGB_LED_MENU" >> ]
      [] id = "mighty_one-2560-clone-r1" ->
        [ mcu |-> "atmega2560",
          programmer |-> "stk500v2",
          board_directory |-> "mighty_one",
          defines |-> << "CORE_XY", "BUILD_STATS", "ALTERNATE_UART",
                         "AUTO_LEVEL_IGNORE_ZMIN_ONBUILD",
                         "HEATERS_ON_STEROIDS", "AUTO_LEVEL", "HAS_RGB_LED",
                         "PSTOP_ZMIN_LEVEL", "COOLING_FAN_PWM",
                         "PLATFORM_SPLASH1_MSG=\\\"SF-Clone R1 \\\"",
                         "PLATFORM_THE_REPLICATOR_STR=\\\"CloneR1\\\"",
                         "PLATFORM_X_OFFSET_STEPS=14444L",
                         "PLATFORM_Y_OFFSET_STEPS=8667L",
                         "PLATFORM_AXIS_LENGTHS={300L, 195L, 210L, 100000L, 100000L}",
                         "PLATFORM_AXIS_STEPS_PER_MM={88888889, 88888889, 400000000, 96275202, 96275202}",
                         "EEPROM_MENU_ENABLE", "CLONE_R1", "RGB_LED_MENU" >> ]
      [] id = "mighty_one-2560-max31855-corexy-zmax" ->
        [ mcu |-> "atmega2560",
          programmer |-> "stk500v2",
          board_directory |-> "mighty_one",
          defines |-> << "CORE_XY", "BUILD_STATS", "ALTERNATE_UART",
                         "USE_ZMAX_HOME", "HAS_RGB_LED",
                         "HEATERS_ON_STEROIDS", "AUTO_LEVEL", "MAX31855",
                         "PSTOP_ZMIN_LEVEL", "COOLING_FAN_PWM",
                         "PLATFORM_SPLASH1_MSG=\\\"SF-Rep1 CoreXY\\\"",
                         "PLATFORM_THE_REPLICATOR_STR=\\\"Rep1 CoreXY\\\"",
                         "EEPROM_MENU_ENABLE", "RGB_LED_MENU",
                         "AUTO_LEVEL_IGNORE_ZMIN_ONBUILD" >> ]
      [] id = "mighty_one-2560-max31855-corexy" ->
        [ mcu |-> "atmega2560",
          programmer |-> "stk500v2",
          board_directory |-> "mighty_one",
          defines |-> << "CORE_XY", "BUILD_STATS", "ALTERNATE_UART",
                         "HAS_RGB_LED", "HEATERS_ON_STEROIDS", "AUTO_LEVEL",
                         "MAX31855", "PSTOP_ZMIN_LEVEL", "COOLING_FAN_PWM",
                         "PLATFORM_SPLASH1_MSG=\\\"SF-Rep1 CoreXY\\\"",
                         "PLATFORM_THE_REPLICATOR_STR=\\\"Rep1 CoreXY\\\"",
                         "EEPROM_MENU_ENABLE", "RGB_LED_MENU",
                         "AUTO_LEVEL_IGNORE_ZMIN_ONBUILD" >> ]
      [] id = "mighty_one-2560-max31855-zmax" ->
        [ mcu |-> "atmega2560",
          programmer |-> "stk500v2",
          board_directory |-> "mighty_one",
          defines |-> << "BUILD_STATS", "ALTERNATE_UART", "MAX31855",
                         "USE_ZMAX_HOME", "COOLING_FAN_PWM", "AUTO_LEVEL",
                         "PSTOP_ZMIN_LEVEL", "HAS_RGB_LED",
                         "AUTO_LEVEL_IGNORE_ZMIN_ONBUILD",
                         "PLATFORM_SPLASH1_MSG=\\\"SF-Replicator1\\\"",
                         "PLATFORM_THE_REPLICATOR_STR=\\\"Replicator 1\\\"",
                         "EEPROM_MENU_ENABLE", "RGB_LED_MENU" >> ]
      [] id = "mighty_one-2560-max31855" ->
        [ mcu |-> "atmega2560",
          programmer |-> "stk500v2",
          board_directory |-> "mighty_one",
          defines |-> << "BUILD_STATS", "ALTERNATE_UART", "MAX31855",
                         "COOLING_FAN_PWM", "AUTO_LEVEL", "PSTOP_ZMIN_LEVEL",
                         "HAS_RGB_LED", "AUTO_LEVEL_IGNORE_ZMIN_ONBUILD",
                         "PLATFORM_SPLASH1_MSG=\\\"SF-Replicator1\\\"",
                         "PLATFORM_THE_REPLICATOR_STR=\\\"Replicator 1\\\"",
                         "EEPROM_MENU_ENABLE", "RGB_LED_MENU" >> ]
      [] id = "mighty_two-hyper-zmax" ->
        [ mcu |-> "atmega1280",
          programmer |-> "stk500v1",
          board_directory |-> "mighty_two",
          defines |-> << "AUTO_LEVEL", "PSTOP_ZMIN_LEVEL",
                         "AUTO_LEVEL_IGNORE_ZMIN_ONBUILD", "SINGLE_EXTRUDER",
                         "BUILD_STATS", "HAS_RGB_LED", "COOLING_FAN_PWM",
                         "USE_ZMAX_HOME",
                         "PLATFORM_SPLASH1_MSG=\\\"SF-Replicator2\\\"",
                         "PLATFORM_TOOLHEAD_OFFSET_X=3100",
                         "PLATFORM_THE_REPLICATOR_STR=\\\"Replicator 2\\\"",
                         "PLATFORM_MACHINE_ID=0xB015",
                         "PLATFORM_X_OFFSET_STEPS=13463L",
                         "PLATFORM_Y_OFFSET_STEPS=6643L",
                         "PLATFORM_HBP_PRESENT=0",
                         "PLATFORM_AXIS_LENGTHS={285L, 152L, 155L, 100000L, 100000L}",
                         "PLATFORM_AXIS_STEPS_PER_MM={88573186, 88573186, 400000000, 96275202, 96275202}",
                         "EEPROM_MENU_ENABLE" >> ]
      [] id = "mighty_two-hyper" ->
        [ mcu |-> "atmega1280",
          programmer |-> "stk500v1",
          board_directory |-> "mighty_two",
          defines |-> << "AUTO_LEVEL", "PSTOP_ZMIN_LEVEL",
                         "AUTO_LEVEL_IGNORE_ZMIN_ONBUILD", "SINGLE_EXTRUDER",
                         "BUILD_STATS", "HAS_RGB_LED", "COOLING_FAN_PWM",
                         "PLATFORM_SPLASH1_MSG=\\\"SF-Replicator2\\\"",
                         "PLATFORM_TOOLHEAD_OFFSET_X=3100",
                         "PLATFORM_THE_REPLICATOR_STR=\\\"Replicator 2\\\"",
                         "PLATFORM_MACHINE_ID=0xB015",
                         "PLATFORM_X_OFFSET_STEPS=13463L",
                         "PLATFORM_Y_OFFSET_STEPS=6643L",
                         "PLATFORM_HBP_PRESENT=0",
                         "PLATFORM_AXIS_LENGTHS={285L, 152L, 155L, 100000L, 100000L}",
                         "PLATFORM_AXIS_STEPS_PER_MM={88573186, 88573186, 400000000, 96275202, 96275202}",
                         "EEPROM_MENU_ENABLE" >> ]
      [] id = "mighty_two-corexy-hyper-zmax" ->
        [ mcu |-> "atmega1280",
          programmer |-> "stk500v1",
          board_directory |-> "mighty_two",
          defines |-> << "AUTO_LEVEL", "PSTOP_ZMIN_LEVEL",
                         "AUTO_LEVEL_IGNORE_ZMIN_ONBUILD", "CORE_XY",
                         "SINGLE_EXTRUDER", "BUILD_STATS", "HAS_RGB_LED",
                         "COOLING_FAN_PWM", "USE_ZMAX_HOME",
                         "PLATFORM_SPLASH1_MSG=\\\"SF-Rep2 CoreXY\\\"",
                         "PLATFORM_TOOLHEAD_OFFSET_X=3100",
                         "PLATFORM_THE_REPLICATOR_STR=\\\"Rep2 CoreXY\\\"",
                         "PLATFORM_MACHINE_ID=0xB015",
                         "PLATFORM_X_OFFSET_STEPS=13463L",
                         "PLATFORM_Y_OFFSET_STEPS=6643L",
                         "PLATFORM_AXIS_LENGTHS={285L, 152L, 155L, 100000L, 100000L}",
                         "PLATFORM_AXIS_STEPS_PER_MM={88573186, 88573186, 400000000, 96275202, 96275202}",
                         "EEPROM_MENU_ENABLE" >> ]
      [] id = "mighty_two-corexy-hyper" ->
        [ mcu |-> "atmega1280",
          programmer |-> "stk500v1",
          board_directory |-> "mighty_two",
          defines |-> << "AUTO_LEVEL", "PSTOP_ZMIN_LEVEL",
                         "AUTO_LEVEL_IGNORE_ZMIN_ONBUILD", "CORE_XY",
                         "SINGLE_EXTRUDER", "BUILD_STATS", "HAS_RGB_LED",
                         "COOLING_FAN_PWM",
                         "PLATFORM_SPLASH1_MSG=\\\"SF-Rep2 CoreXY\\\"",
                         "PLATFORM_TOOLHEAD_OFFSET_X=3100",
                         "PLATFORM_THE_REPLICATOR_STR=\\\"Rep2 CoreXY\\\"",
                         "PLATFORM_MACHINE_ID=0xB015",
                         "PLATFORM_X_OFFSET_STEPS=13463L",
                         "PLATFORM_Y_OFFSET_STEPS=6643L",
                         "PLATFORM_AXIS_LENGTHS={285L, 152L, 155L, 100000L, 100000L}",
                         "PLATFORM_AXIS_STEPS_PER_MM={88573186, 88573186, 400000000, 96275202, 96275202}",
                         "EEPROM_MENU_ENABLE" >> ]
      [] id = "mighty_two" ->
        [ mcu |-> "atmega1280",
          programmer |-> "stk500v1",
          board_directory |-> "mighty_two",
          defines |-> << "SINGLE_EXTRUDER", "BUILD_STATS", "HAS_RGB_LED",
                         "COOLING_FAN_PWM",
                         "PLATFORM_SPLASH1_MSG=\\\"SF-Replicator2\\\"",
                         "PLATFORM_TOOLHEAD_OFFSET_X=3100",
                         "PLATFORM_THE_REPLICATOR_STR=\\\"Replicator 2\\\"",
                         "PLATFORM_MACHINE_ID=0xB015",
                         "PLATFORM_X_OFFSET_STEPS=13463L",
                         "PLATFORM_Y_OFFSET_STEPS=6643L",
                         "PLATFORM_HBP_PRESENT=0",
                         "PLATFORM_AXIS_LENGTHS={285L, 152L, 155L, 100000L, 100000L}",
                         "PLATFORM_AXIS_STEPS_PER_MM={88573186, 88573186, 400000000, 96275202, 96275202}",
                         "EEPROM_MENU_ENABLE" >> ]
      [] id = "mighty_two-corexy" ->
        [ mcu |-> "atmega1280",
          programmer |-> "stk500v1",
          board_directory |-> "mighty_two",
          defines |-> << "CORE_XY", "SINGLE_EXTRUDER", "BUILD_STATS",
                         "HAS_RGB_LED", "COOLING_FAN_PWM",
                         "PLATFORM_SPLASH1_MSG=\\\"SF-Rep2 CoreXY\\\"",
                         "PLATFORM_TOOLHEAD_OFFSET_X=3100",
                         "PLATFORM_THE_REPLICATOR_STR=\\\"Rep2 CoreXY\\\"",
                         "PLATFORM_MACHINE_ID=0xB015",
                         "PLATFORM_X_OFFSET_STEPS=13463L",
                         "PLATFORM_Y_OFFSET_STEPS=6643L",
                         "PLATFORM_AXIS_LENGTHS={285L, 152L, 155L, 100000L, 100000L}",
                         "PLATFORM_AXIS_STEPS_PER_MM={88573186, 88573186, 400000000, 96275202, 96275202}",
                         "EEPROM_MENU_ENABLE" >> ]
      [] id = "mighty_two-2560-zmax" ->
        [ mcu |-> "atmega2560",
          programmer |-> "stk500v2",
          board_directory |-> "mighty_two",
          defines |-> << "SINGLE_EXTRUDER", "BUILD_STATS", "ALTERNATE_UART",
                         "COOLING_FAN_PWM", "USE_ZMAX_HOME",
                         "PLATFORM_SPLASH1_MSG=\\\"SF-Replicator2\\\"",
                         "PLATFORM_TOOLHEAD_OFFSET_X=3100",
                         "PLATFORM_THE_REPLICATOR_STR=\\\"Replicator 2\\\"",
                         "PLATFORM_MACHINE_ID=0xB015",
                         "PLATFORM_X_OFFSET_STEPS=13463L",
                         "PLATFORM_Y_OFFSET_STEPS=6643L",
                         "PLATFORM_HBP_PRESENT=0",
                         "PLATFORM_AXIS_LENGTHS={285L, 152L, 155L, 100000L, 100000L}",
                         "PLATFORM_AXIS_STEPS_PER_MM={88573186, 88573186, 400000000, 96275202, 96275202}",
                         "AUTO_LEVEL", "AUTO_LEVEL_IGNORE_ZMIN_ONBUILD",
                         "PSTOP_ZMIN_LEVEL", "HAS_RGB_LED",
                         "EEPROM_MENU_ENABLE", "RGB_LED_MENU" >> ]
      [] id = "mighty_two-2560" ->
        [ mcu |-> "atmega2560",
          programmer |-> "stk500v2",
          board_directory |-> "mighty_two",
          defines |-> << "SINGLE_EXTRUDER", "BUILD_STATS", "ALTERNATE_UART",
                         "COOLING_FAN_PWM",
                         "PLATFORM_SPLASH1_MSG=\\\"SF-Replicator2\\\"",
                         "PLATFORM_TOOLHEAD_OFFSET_X=3100",
                         "PLATFORM_THE_REPLICATOR_STR=\\\"Replicator 2\\\"",
                         "PLATFORM_MACHINE_ID=0xB015",
                         "PLATFORM_X_OFFSET_STEPS=13463L",
                         "PLATFORM_Y_OFFSET_STEPS=6643L",
                         "PLATFORM_HBP_PRESENT=0",
                         "PLATFORM_AXIS_LENGTHS={285L, 152L, 155L, 100000L, 100000L}",
                         "PLATFORM_AXIS_STEPS_PER_MM={88573186, 88573186, 400000000, 96275202, 96275202}",
                         "AUTO_LEVEL", "AUTO_LEVEL_IGNORE_ZMIN_ONBUILD",
                         "PSTOP_ZMIN_LEVEL", "HAS_RGB_LED",
                         "EEPROM_MENU_ENABLE", "RGB_LED_MENU" >> ]
      [] id = "mighty_twox-hyper-zmax" ->
        [ mcu |-> "atmega1280",
          programmer |-> "stk500v1",
          board_directory |-> "mighty_two",
          defines |-> << "AUTO_LEVEL", "PSTOP_ZMIN_LEVEL",
                         "AUTO_LEVEL_IGNORE_ZMIN_ONBUILD", "BUILD_STATS",
                         "HAS_RGB_LED", "COOLING_FAN_PWM", "USE_ZMAX_HOME",
                         "PLATFORM_SPLASH1_MSG=\\\"SF-Rep 2X\\\"",
                         "PLATFORM_TOOLHEAD_OFFSET_X=3100",
                         "PLATFORM_THE_REPLICATOR_STR=\\\"Replicator 2X\\\"",
                         "PLATFORM_MACHINE_ID=0xB017",
                         "PLATFORM_X_OFFSET_STEPS=13463L",
                         "PLATFORM_Y_OFFSET_STEPS=6643L",
                         "PLATFORM_AXIS_LENGTHS={246L, 152L, 155L, 100000L, 100000L}",
                         "PLATFORM_AXIS_STEPS_PER_MM={88573186, 88573186, 400000000, 96275202, 96275202}",
                         "EEPROM_MENU_ENABLE" >> ]
      [] id = "mighty_twox-hyper" ->
        [ mcu |-> "atmega1280",
          programmer |-> "stk500v1",
          board_directory |-> "mighty_two",
          defines |-> << "AUTO_LEVEL", "PSTOP_ZMIN_LEVEL",
                         "AUTO_LEVEL_IGNORE_ZMIN_ONBUILD", "BUILD_STATS",
                         "HAS_RGB_LED", "COOLING_FAN_PWM",
                         "PLATFORM_SPLASH1_MSG=\\\"SF-Rep 2X\\\"",
                         "PLATFORM_TOOLHEAD_OFFSET_X=3100",
                         "PLATFORM_THE_REPLICATOR_STR=\\\"Replicator 2X\\\"",
                         "PLATFORM_MACHINE_ID=0xB017",
                         "PLATFORM_X_OFFSET_STEPS=13463L",
                         "PLATFORM_Y_OFFSET_STEPS=6643L",
                         "PLATFORM_AXIS_LENGTHS={246L, 152L, 155L, 100000L, 100000L}",
                         "PLATFORM_AXIS_STEPS_PER_MM={88573186, 88573186, 400000000, 96275202, 96275202}",
                         "EEPROM_MENU_ENABLE" >> ]
      [] id = "mighty_twox" ->
        [ mcu |-> "atmega1280",
          programmer |-> "stk500v1",
          board_directory |-> "mighty_two",
          defines |-> << "BUILD_STATS", "HAS_RGB_LED", "COOLING_FAN_PWM",
                         "PLATFORM_SPLASH1_MSG=\\\"SF-Rep 2X\\\"",
                         "PLATFORM_TOOLHEAD_OFFSET_X=3100",
                         "PLATFORM_THE_REPLICATOR_STR=\\\"Replicator 2X\\\"",
                         "PLATFORM_MACHINE_ID=0xB017",
                         "PLATFORM_X_OFFSET_STEPS=13463L",
                         "PLATFORM_Y_OFFSET_STEPS=6643L",
                         "PLATFORM_AXIS_LENGTHS={246L, 152L, 155L, 100000L, 100000L}",
                         "PLATFORM_AXIS_STEPS_PER_MM={88573186, 88573186, 400000000, 96275202, 96275202}",
                         "EEPROM_MENU_ENABLE" >> ]
      [] id = "mighty_twox-2560-zmax" ->
        [ mcu |-> "atmega2560",
          programmer |-> "stk500v2",
          board_directory |-> "mighty_two",
          defines |-> << "BUILD_STATS", "ALTERNATE_UART", "AUTO_LEVEL",
                         "AUTO_LEVEL_IGNORE_ZMIN_ONBUILD",
                         "PSTOP_ZMIN_LEVEL", "HAS_RGB_LED",
                         "COOLING_FAN_PWM", "USE_ZMAX_HOME",
                         "PLATFORM_SPLASH1_MSG=\\\"SF-Rep 2X\\\"",
                         "PLATFORM_TOOLHEAD_OFFSET_X=3100",
                         "PLATFORM_THE_REPLICATOR_STR=\\\"Replicator 2X\\\"",
                         "PLATFORM_MACHINE_ID=0xB017",
                         "PLATFORM_X_OFFSET_STEPS=13463L",
                         "PLATFORM_Y_OFFSET_STEPS=6643L",
                         "PLATFORM_AXIS_LENGTHS={246L, 152L, 155L, 100000L, 100000L}",
                         "PLATFORM_AXIS_STEPS_PER_MM={88573186, 88573186, 400000000, 96275202, 96275202}",
                         "EEPROM_MENU_ENABLE", "RGB_LED_MENU" >> ]
      [] id = "mighty_twox-2560" ->
        [ mcu |-> "atmega2560",
          programmer |-> "stk500v2",
          board_directory |-> "mighty_two",
          defines |-> << "BUILD_STATS", "ALTERNATE_UART", "AUTO_LEVEL",
                         "AUTO_LEVEL_IGNORE_ZMIN_ONBUILD",
                         "PSTOP_ZMIN_LEVEL", "HAS_RGB_LED",
                         "COOLING_FAN_PWM",
                         "PLATFORM_SPLASH1_MSG=\\\"SF-Rep 2X\\\"",
                         "PLATFORM_TOOLHEAD_OFFSET_X=3100",
                         "PLATFORM_THE_REPLICATOR_STR=\\\"Replicator 2X\\\"",
                         "PLATFORM_MACHINE_ID=0xB017",
                         "PLATFORM_X_OFFSET_STEPS=13463L",
                         "PLATFORM_Y_OFFSET_STEPS=6643L",
                         "PLATFORM_AXIS_LENGTHS={246L, 152L, 155L, 100000L, 100000L}",
                         "PLATFORM_AXIS_STEPS_PER_MM={88573186, 88573186, 400000000, 96275202, 96275202}",
                         "EEPROM_MENU_ENABLE", "RGB_LED_MENU" >> ]
      [] id = "ff_creator-hyper-zmax" ->
        [ mcu |-> "atmega1280",
          programmer |-> "stk500v1",
          board_directory |-> "mighty_one",
          defines |-> << "AUTO_LEVEL", "PSTOP_ZMIN_LEVEL",
                         "AUTO_LEVEL_IGNORE_ZMIN_ONBUILD", "BUILD_STATS",
                         "HEATERS_ON_STEROIDS", "HAS_RGB_LED",
                         "COOLING_FAN_PWM",
                         "PLATFORM_SPLASH1_MSG=\\\"SF-FF Creator\\\"",
                         "USE_ZMAX_HOME", "PLATFORM_TOOLHEAD_OFFSET_X=3201",
                         "PLATFORM_THE_REPLICATOR_STR=\\\"FF Creator\\\"",
                         "EEPROM_MENU_ENABLE" >> ]
      [] id = "ff_creator-hyper" ->
        [ mcu |-> "atmega1280",
          programmer |-> "stk500v1",
          board_directory |-> "mighty_one",
          defines |-> << "AUTO_LEVEL", "PSTOP_ZMIN_LEVEL",
                         "AUTO_LEVEL_IGNORE_ZMIN_ONBUILD", "BUILD_STATS",
                         "HEATERS_ON_STEROIDS", "HAS_RGB_LED",
                         "COOLING_FAN_PWM",
                         "PLATFORM_SPLASH1_MSG=\\\"SF-FF Creator\\\"",
                         "PLATFORM_TOOLHEAD_OFFSET_X=3201",
                         "PLATFORM_THE_REPLICATOR_STR=\\\"FF Creator\\\"",
                         "EEPROM_MENU_ENABLE" >> ]
      [] id = "ff_creator" ->
        [ mcu |-> "atmega1280",
          programmer |-> "stk500v1",
          board_directory |-> "mighty_one",
          defines |-> << "HEATERS_ON_STEROIDS", "HAS_RGB_LED",
                         "COOLING_FAN_PWM",
                         "PLATFORM_SPLASH1_MSG=\\\"SF-Creator\\\"",
                         "PLATFORM_TOOLHEAD_OFFSET_X=3201",
                         "PLATFORM_THE_REPLICATOR_STR=\\\"FF Creator\\\"",
                         "EEPROM_MENU_ENABLE" >> ]
      [] id = "ff_creator-2560-zmax" ->
        [ mcu |-> "atmega2560",
          programmer |-> "stk500v2",
          board_directory |-> "mighty_one",
          defines |-> << "BUILD_STATS", "ALTERNATE_UART", "COOLING_FAN_PWM",
                         "USE_ZMAX_HOME",
                         "PLATFORM_SPLASH1_MSG=\\\"SF-FF Creator\\\"",
                         "PLATFORM_TOOLHEAD_OFFSET_X=3201",
                         "PLATFORM_THE_REPLICATOR_STR=\\\"FF Creator\\\"",
                         "HEATERS_ON_STEROIDS", "AUTO_LEVEL",
                         "AUTO_LEVEL_IGNORE_ZMIN_ONBUILD",
                         "PSTOP_ZMIN_LEVEL", "HAS_RGB_LED", "RGB_LED_MENU",
                         "EEPROM_MENU_ENABLE" >> ]
      [] id = "ff_creator-2560" ->
        [ mcu |-> "atmega2560",
          programmer |-> "stk500v2",
          board_directory |-> "mighty_one",
          defines |-> << "BUILD_STATS", "ALTERNATE_UART", "COOLING_FAN_PWM",
                         "PLATFORM_SPLASH1_MSG=\\\"SF-FF Creator\\\"",
                         "PLATFORM_TOOLHEAD_OFFSET_X=3201",
                         "PLATFORM_THE_REPLICATOR_STR=\\\"FF Creator\\\"",
                         "HEATERS_ON_STEROIDS", "AUTO_LEVEL",
                         "AUTO_LEVEL_IGNORE_ZMIN_ONBUILD",
                         "PSTOP_ZMIN_LEVEL", "HAS_RGB_LED", "RGB_LED_MENU",
                         "EEPROM_MENU_ENABLE" >> ]
      [] id = "ff_creatorx-2560-zmax" ->
        [ mcu |-> "atmega2560",
          programmer |-> "stk500v2",
          board_directory |-> "mighty_one",
          defines |-> << "BUILD_STATS", "ALTERNATE_UART", "HBP_SOFTPWM",
                         "COOLING_FAN_PWM", "USE_ZMAX_HOME",
                         "PLATFORM_SPLASH1_MSG=\\\"SF-FF CreatorX\\\"",
                         "PLATFORM_TOOLHEAD_OFFSET_X=3201",
                         "PLATFORM_THE_REPLICATOR_STR=\\\"Creator X / Pro\\\"",
                         "HEATERS_ON_STEROIDS", "AUTO_LEVEL",
                         "AUTO_LEVEL_IGNORE_ZMIN_ONBUILD",
                         "PSTOP_ZMIN_LEVEL", "HAS_RGB_LED", "RGB_LED_MENU",
                         "EEPROM_MENU_ENABLE" >> ]
      [] id = "ff_creatorx-2560" ->
        [ mcu |-> "atmega2560",
          programmer |-> "stk500v2",
          board_directory |-> "mighty_one",
          defines |-> << "BUILD_STATS", "ALTERNATE_UART", "HBP_SOFTPWM",
                         "COOLING_FAN_PWM",
                         "PLATFORM_SPLASH1_MSG=\\\"SF-FF CreatorX\\\"",
                         "PLATFORM_TOOLHEAD_OFFSET_X=3201",
                         "PLATFORM_THE_REPLICATOR_STR=\\\"Creator X / Pro\\\"",
                         "HEATERS_ON_STEROIDS", "AUTO_LEVEL",
                         "AUTO_LEVEL_IGNORE_ZMIN_ONBUILD",
                         "PSTOP_ZMIN_LEVEL", "HAS_RGB_LED", "RGB_LED_MENU",
                         "EEPROM_MENU_ENABLE" >> ]
      [] id = "wanhao_dup4-hyper-zmax" ->
        [ mcu |-> "atmega1280",
          programmer |-> "stk500v1",
          board_directory |-> "mighty_one",
          defines |-> << "AUTO_LEVEL", "PSTOP_ZMIN_LEVEL",
                         "AUTO_LEVEL_IGNORE_ZMIN_ONBUILD", "USE_ZMAX_HOME",
                         "BUILD_STATS", "HEATERS_ON_STEROIDS",
                         "COOLING_FAN_PWM", "USE_ZMAX_HOME",
                         "PLATFORM_SPLASH1_MSG=\\\"SF-Wanhao Dup4\\\"",
                         "PLATFORM_THE_REPLICATOR_STR=\\\"Wanhao Duplicatr\\\"",
                         "PLATFORM_TOOLHEAD_OFFSET_X=3201",
                         "PLATFORM_X_OFFSET_STEPS=13763L",
                         "PLATFORM_Y_OFFSET_STEPS=6919L", "HAS_RGB_LED",
                         "EEPROM_MENU_ENABLE" >> ]
      [] id = "wanhao_dup4-hyper" ->
        [ mcu |-> "atmega1280",
          programmer |-> "stk500v1",
          board_directory |-> "mighty_one",
          defines |-> << "AUTO_LEVEL", "PSTOP_ZMIN_LEVEL",
                         "AUTO_LEVEL_IGNORE_ZMIN_ONBUILD", "BUILD_STATS",
                         "HEATERS_ON_STEROIDS", "COOLING_FAN_PWM",
                         "PLATFORM_SPLASH1_MSG=\\\"SF-Wanhao Dup4\\\"",
                         "PLATFORM_THE_REPLICATOR_STR=\\\"Wanhao Duplicatr\\\"",
                         "PLATFORM_TOOLHEAD_OFFSET_X=3201",
                         "PLATFORM_X_OFFSET_STEPS=13763L",
                         "PLATFORM_Y_OFFSET_STEPS=6919L", "HAS_RGB_LED",
                         "EEPROM_MENU_ENABLE" >> ]
      [] id = "zyyx-1280-hyper" ->
        [ mcu |-> "atmega1280",
          programmer |-> "stk500v1",
          board_directory |-> "mighty_one",
          defines |-> << "AUTO_LEVEL", "PSTOP_ZMIN_LEVEL",
                         "AUTO_LEVEL_IGNORE_ZMIN_ONBUILD", "BUILD_STATS",
                         "SINGLE_EXTRUDER", "ZYYX_3D_PRINTER",
                         "HEATERS_ON_STEROIDS", "COOLING_FAN_PWM",
                         "PLATFORM_SPLASH1_MSG=\\\"SF-ZYYX 3DP\\\"",
                         "PLATFORM_THE_REPLICATOR_STR=\\\"ZYYX 3D Printer\\\"",
                         "PLATFORM_X_OFFSET_STEPS=11957L",
                         "PLATFORM_Y_OFFSET_STEPS=10186L",
                         "PLATFORM_HBP_PRESENT=0",
                         "PLATFORM_AXIS_LENGTHS={270L, 230L, 195L, 100000L, 100000L}",
                         "PLATFORM_AXIS_STEPS_PER_MM={88573186, 88573186, 400000000, 96275202, 96275202}",
                         "AUTO_LEVEL", "AUTO_LEVEL_ZYYX", "PSTOP_ZMIN_LEVEL" >> ]
      [] id = "wanhao_dup4" ->
        [ mcu |-> "atmega1280",
          programmer |-> "stk500v1",
          board_directory |-> "mighty_one",
          defines |-> << "HEATERS_ON_STEROIDS", "COOLING_FAN_PWM",
                         "PLATFORM_SPLASH1_MSG=\\\"SF-Wanhao Dup4\\\"",
                         "PLATFORM_THE_REPLICATOR_STR=\\\"Wanhao Duplicatr\\\"",
                         "PLATFORM_TOOLHEAD_OFFSET_X=3201",
                         "PLATFORM_X_OFFSET_STEPS=13763L",
                         "PLATFORM_Y_OFFSET_STEPS=6919L", "HAS_RGB_LED",
                         "EEPROM_MENU_ENABLE" >> ]
      [] id = "zyyx-1280" ->
        [ mcu |-> "atmega1280",
          programmer |-> "stk500v1",
          board_directory |-> "mighty_one",
          defines |-> << "SINGLE_EXTRUDER", "ZYYX_3D_PRINTER",
                         "HEATERS_ON_STEROIDS", "COOLING_FAN_PWM",
                         "PLATFORM_SPLASH1_MSG=\\\"SF-ZYYX 3DP\\\"",
                         "PLATFORM_THE_REPLICATOR_STR=\\\"ZYYX 3D Printer\\\"",
                         "PLATFORM_X_OFFSET_STEPS=11957L",
                         "PLATFORM_Y_OFFSET_STEPS=10186L",
                         "PLATFORM_HBP_PRESENT=0",
                         "PLATFORM_AXIS_LENGTHS={270L, 230L, 195L, 100000L, 100000L}",
                         "PLATFORM_AXIS_STEPS_PER_MM={88573186, 88573186, 400000000, 96275202, 96275202}",
                         "AUTO_LEVEL", "AUTO_LEVEL_ZYYX", "PSTOP_ZMIN_LEVEL" >> ]
      [] id = "zyyx-2560" ->
        [ mcu |-> "atmega2560",
          programmer |-> "stk500v2",
          board_directory |-> "mighty_one",
          defines |-> << "EEPROM_MENU_ENABLE", "BUILD_STATS",
                         "SINGLE_EXTRUDER", "ALTERNATE_UART",
                         "ZYYX_3D_PRINTER", "COOLING_FAN_PWM",
                         "PLATFORM_SPLASH1_MSG=\\\"SF-ZYYX 3DP\\\"",
                         "PLATFORM_THE_REPLICATOR_STR=\\\"ZYYX 3D Printer\\\"",
                         "PLATFORM_X_OFFSET_STEPS=11957L",
                         "PLATFORM_Y_OFFSET_STEPS=10186L",
                         "PLATFORM_HBP_PRESENT=0",
                         "PLATFORM_AXIS_LENGTHS={270L, 230L, 195L, 100000L, 100000L}",
                         "PLATFORM_AXIS_STEPS_PER_MM={88573186, 88573186, 400000000, 96275202, 96275202}",
                         "HEATERS_ON_STEROIDS", "AUTO_LEVEL",
                         "AUTO_LEVEL_IGNORE_ZMIN_ONBUILD", "AUTO_LEVEL_ZYYX",
                         "PSTOP_ZMIN_LEVEL", "ZYYX_LEVEL_SCRIPT" >> ]
      [] id = "zyyx-dual-2560" ->
        [ mcu |-> "atmega2560",
          programmer |-> "stk500v2",
          board_directory |-> "mighty_one",
          defines |-> << "EEPROM_MENU_ENABLE", "BUILD_STATS",
                         "COOLING_FAN_PWM", "ALTERNATE_UART",
                         "ZYYX_3D_PRINTER",
                         "PLATFORM_SPLASH1_MSG=\\\"SF-ZYYX 3DP\\\"",
                         "PLATFORM_THE_REPLICATOR_STR=\\\"ZYYX 3D Printer\\\"",
                         "PLATFORM_X_OFFSET_STEPS=11957L",
                         "PLATFORM_Y_OFFSET_STEPS=10186L",
                         "PLATFORM_HBP_PRESENT=0",
                         "PLATFORM_AXIS_LENGTHS={270L, 230L, 195L, 100000L, 100000L}",
                         "PLATFORM_AXIS_STEPS_PER_MM={88573186, 88573186, 400000000, 96275202, 96275202}",
                         "HEATERS_ON_STEROIDS", "AUTO_LEVEL",
                         "AUTO_LEVEL_IGNORE_ZMIN_ONBUILD", "AUTO_LEVEL_ZYYX",
                         "PSTOP_ZMIN_LEVEL", "ZYYX_LEVEL_SCRIPT" >> ]
      [] id = "azteeg-x3-xymax" ->
        [ mcu |-> "atmega2560",
          programmer |-> "stk500v2",
          board_directory |-> "azteeg_x3",
          defines |-> << "BUILD_STATS", "HEATERS_ON_STEROIDS",
                         "PLATFORM_SPLASH1_MSG=\\\"SF-Azteeg XYmx\\\"",
                         "PLATFORM_THE_REPLICATOR_STR=\\\"Azteeg X3\\\"",
                         "PLATFORM_X_OFFSET_STEPS=14309L",
                         "PLATFORM_Y_OFFSET_STEPS=7060L",
                         "PLATFORM_VREF_DEFAULTS={127, 127, 127, 127, 127}",
                         "AUTO_LEVEL", "AUTO_LEVEL_IGNORE_ZMIN_ONBUILD",
                         "PSTOP_ZMIN_LEVEL", "COOLING_FAN_PWM",
                         "EEPROM_MENU_ENABLE", "HAS_RGB_LED" >> ]
      [] id = "azteeg-x3-xymax-corexy" ->
        [ mcu |-> "atmega2560",
          programmer |-> "stk500v2",
          board_directory |-> "azteeg_x3",
          defines |-> << "CORE_XY", "BUILD_STATS", "HEATERS_ON_STEROIDS",
                         "PLATFORM_SPLASH1_MSG=\\\"SF-Azteeg XYmx\\\"",
                         "PLATFORM_THE_REPLICATOR_STR=\\\"Azteeg X3 CoreXY\\\"",
                         "PLATFORM_X_OFFSET_STEPS=14309L",
                         "PLATFORM_Y_OFFSET_STEPS=7060L",
                         "PLATFORM_VREF_DEFAULTS={127, 127, 127, 127, 127}",
                         "AUTO_LEVEL", "AUTO_LEVEL_IGNORE_ZMIN_ONBUILD",
                         "PSTOP_ZMIN_LEVEL", "COOLING_FAN_PWM",
                         "EEPROM_MENU_ENABLE", "HAS_RGB_LED" >> ]
      [] id = "azteeg-x3-xymin" ->
        [ mcu |-> "atmega2560",
          programmer |-> "stk500v2",
          board_directory |-> "azteeg_x3",
          defines |-> << "BUILD_STATS", "HEATERS_ON_STEROIDS",
                         "XY_MIN_HOMING",
                         "PLATFORM_SPLASH1_MSG=\\\"SF-Azteeg XYmn\\\"",
                         "PLATFORM_THE_REPLICATOR_STR=\\\"Azteeg X3\\\"",
                         "PLATFORM_X_OFFSET_STEPS=0L",
                         "PLATFORM_Y_OFFSET_STEPS=0L",
                         "PLATFORM_VREF_DEFAULTS={127, 127, 127, 127, 127}",
                         "AUTO_LEVEL", "AUTO_LEVEL_IGNORE_ZMIN_ONBUILD",
                         "PSTOP_ZMIN_LEVEL", "COOLING_FAN_PWM",
                         "EEPROM_MENU_ENABLE", "HAS_RGB_LED" >> ]
      [] id = "azteeg-x3-xymin-corexy" ->
        [ mcu |-> "atmega2560",
          programmer |-> "stk500v2",
          board_directory |-> "azteeg_x3",
          defines |-> << "CORE_XY", "BUILD_STATS", "HEATERS_ON_STEROIDS",
                         "PLATFORM_SPLASH1_MSG=\\\"SF-Azteeg XYmn\\\"",
                         "PLATFORM_THE_REPLICATOR_STR=\\\"Azteeg X3 CoreXY\\\"",
                         "PLATFORM_X_OFFSET_STEPS=0L",
                         "PLATFORM_Y_OFFSET_STEPS=0L",
                         "PLATFORM_VREF_DEFAULTS={127, 127, 127, 127, 127}",
                         "AUTO_LEVEL", "AUTO_LEVEL_IGNORE_ZMIN_ONBUILD",
                         "PSTOP_ZMIN_LEVEL", "COOLING_FAN_PWM",
                         "EEPROM_MENU_ENABLE", "HAS_RGB_LED", "XY_MIN_HOMING" >> ]
(***************************************************************************)
(* The characters of the define strings of the source: those of the        *)
(* baseline, and those of the header's franken-board example.              *)
(***************************************************************************)
SourceChars(s) ==
    CASE s = "BUILD_STATS" ->
        << "B", "U", "I", "L", "D", "_", "S", "T", "A", "T", "S" >>
      [] s = "AUTO_LEVEL" ->
        << "A", "U", "T", "O", "_", "L", "E", "V", "E", "L" >>
      [] s = "USE_ZMAX_HOME" ->
        << "U", "S", "E", "_", "Z", "M", "A", "X", "_", "H", "O", "M", "E" >>
      [] s = "PSTOP_ZMIN_LEVEL" ->
        << "P", "S", "T", "O", "P", "_", "Z", "M", "I", "N", "_", "L", "E",
           "V", "E", "L" >>
      [] s = "AUTO_LEVEL_IGNORE_ZMIN_ONBUILD" ->
        << "A", "U", "T", "O", "_", "L", "E", "V", "E", "L", "_", "I", "G",
           "N", "O", "R", "E", "_", "Z", "M", "I", "N", "_", "O", "N", "B",
           "U", "I", "L", "D" >>
      [] s = "HAS_RGB_LED" ->
        << "H", "A", "S", "_", "R", "G", "B", "_", "L", "E", "D" >>
      [] s = "EEPROM_MENU_ENABLE" ->
        << "E", "E", "P", "R", "O", "M", "_", "M", "E", "N", "U", "_", "E",
           "N", "A", "B", "L", "E" >>
      [] s = "COOLING_FAN_PWM" ->
        << "C", "O", "O", "L", "I", "N", "G", "_", "F", "A", "N", "_", "P",
           "W", "M" >>
      [] s = "PLATFORM_SPLASH1_MSG=\\\"SF-Replicator1\\\"" ->
        << "P", "L", "A", "T", "F", "O", "R", "M", "_", "S", "P", "L", "A",
           "S", "H", "1", "_", "M", "S", "G", "=", "\\", "\"", "S", "F", "-",
           "R", "e", "p", "l", "i", "c", "a", "t", "o", "r", "1", "\\", "\"" >>
      [] s = "PLATFORM_THE_REPLICATOR_STR=\\\"Replicator 1\\\"" ->
        << "P", "L", "A", "T", "F", "O", "R", "M", "_", "T", "H", "E", "_",
           "R", "E", "P", "L", "I", "C", "A", "T", "O", "R", "_", "S", "T",
           "R", "=", "\\", "\"", "R", "e", "p", "l", "i", "c", "a", "t", "o",
           "r", " ", "1", "\\", "\"" >>
      [] s = "SINGLE_EXTRUDER" ->
        << "S", "I", "N", "G", "L", "E", "_", "E", "X", "T", "R", "U", "D",
           "E", "R" >>
      [] s = "PLATFORM_HBP_PRESENT=0" ->
        << "P", "L", "A", "T", "F", "O", "R", "M", "_", "H", "B", "P", "_",
           "P", "R", "E", "S", "E", "N", "T", "=", "0" >>
      [] s = "PLATFORM_EXTRUDERS=1" ->
        << "P", "L", "A", "T", "F", "O", "R", "M", "_", "E", "X", "T", "R",
           "U", "D", "E", "R", "S", "=", "1" >>
      [] s = "PLATFORM_SPLASH1_MSG=\\\"SF-Architect\\\"" ->
        << "P", "L", "A", "T", "F", "O", "R", "M", "_", "S", "P", "L", "A",
           "S", "H", "1", "_", "M", "S", "G", "=", "\\", "\"", "S", "F", "-",
           "A", "r", "c", "h", "i", "t", "e", "c", "t", "\\", "\"" >>
      [] s = "PLATFORM_THE_REPLICATOR_STR=\\\"Architect\\\"" ->
        << "P", "L", "A", "T", "F", "O", "R", "M", "_", "T", "H", "E", "_",
           "R", "E", "P", "L", "I", "C", "A", "T", "O", "R", "_", "S", "T",
           "R", "=", "\\", "\"", "A", "r", "c", "h", "i", "t", "e", "c", "t",
           "\\", "\"" >>
      [] s = "CORE_XY" ->
        << "C", "O", "R", "E", "_", "X", "Y" >>
      [] s = "HEATERS_ON_STEROIDS" ->
        << "H", "E", "A", "T", "E", "R", "S", "_", "O", "N", "_", "S", "T",
           "E", "R", "O", "I", "D", "S" >>
      [] s = "PLATFORM_SPLASH1_MSG=\\\"SF-Rep1 CoreXY\\\"" ->
        << "P", "L", "A", "T", "F", "O", "R", "M", "_", "S", "P", "L", "A",
           "S", "H", "1", "_", "M", "S", "G", "=", "\\", "\"", "S", "F", "-",
           "R", "e", "p", "1", " ", "C", "o", "r", "e", "X", "Y", "\\", "\"" >>
      [] s = "PLATFORM_THE_REPLICATOR_STR=\\\"Rep1 CoreXY\\\"" ->
        << "P", "L", "A", "T", "F", "O", "R", "M", "_", "T", "H", "E", "_",
           "R", "E", "P", "L", "I", "C", "A", "T", "O", "R", "_", "S", "T",
           "R", "=", "\\", "\"", "R", "e", "p", "1", " ", "C", "o", "r", "e",
           "X", "Y", "\\", "\"" >>
      [] s = "ALTERNATE_UART" ->
        << "A", "L", "T", "E", "R", "N", "A", "T", "E", "_", "U", "A", "R",
           "T" >>
      [] s = "RGB_LED_MENU" ->
        << "R", "G", "B", "_", "L", "E", "D", "_", "M", "E", "N", "U" >>
      [] s = "PLATFORM_SPLASH1_MSG=\\\"SF-CTC Bizer\\\"" ->
        << "P", "L", "A", "T", "F", "O", "R", "M", "_", "S", "P", "L", "A",
           "S", "H", "1", "_", "M", "S", "G", "=", "\\", "\"", "S", "F", "-",
           "C", "T", "C", " ", "B", "i", "z", "e", "r", "\\", "\"" >>
      [] s = "PLATFORM_THE_REPLICATOR_STR=\\\"CTC Bizer v2\\\"" ->
        << "P", "L", "A", "T", "F", "O", "R", "M", "_", "T", "H", "E", "_",
           "R", "E", "P", "L", "I", "C", "A", "T", "O", "R", "_", "S", "T",
           "R", "=", "\\", "\"", "C", "T", "C", " ", "B", "i", "z", "e", "r",
           " ", "v", "2", "\\", "\"" >>
      [] s = "PLATFORM_SPLASH1_MSG=\\\"SF-CTC Bizer \\\"" ->
        << "P", "L", "A", "T", "F", "O", "R", "M", "_", "S", "P", "L", "A",
           "S", "H", "1", "_", "M", "S", "G", "=", "\\", "\"", "S", "F", "-",
           "C", "T", "C", " ", "B", "i", "z", "e", "r", " ", "\\", "\"" >>
      [] s = "PLATFORM_TOOLHEAD_OFFSET_X=3624" ->
        << "P", "L", "A", "T", "F", "O", "R", "M", "_", "T", "O", "O", "L",
           "H", "E", "A", "D", "_", "O", "F", "F", "S", "E", "T", "_", "X",
           "=", "3", "6", "2", "4" >>
      [] s = "PLATFORM_AXIS_STEPS_PER_MM={94139704, 94139704, 400000000, 147773066, 147773066}" ->
        << "P", "L", "A", "T", "F", "O", "R", "M", "_", "A", "X", "I", "S",
           "_", "S", "T", "E", "P", "S", "_", "P", "E", "R", "_", "M", "M",
           "=", "{", "9", "4", "1", "3", "9", "7", "0", "4", ",", " ", "9",
           "4", "1", "3", "9", "7", "0", "4", ",", " ", "4", "0", "0", "0",
           "0", "0", "0", "0", "0", ",", " ", "1", "4", "7", "7", "7", "3",
           "0", "6", "6", ",", " ", "1", "4", "7", "7", "7", "3", "0", "6",
           "6", "}" >>
      [] s = "PLATFORM_SPLASH1_MSG=\\\"SF-Clone R1 \\\"" ->
        << "P", "L", "A", "T", "F", "O", "R", "M", "_", "S", "P", "L", "A",
           "S", "H", "1", "_", "M", "S", "G", "=", "\\", "\"", "S", "F", "-",
           "C", "l", "o", "n", "e", " ", "R", "1", " ", "\\", "\"" >>
      [] s = "PLATFORM_THE_REPLICATOR_STR=\\\"CloneR1\\\"" ->
        << "P", "L", "A", "T", "F", "O", "R", "M", "_", "T", "H", "E", "_",
           "R", "E", "P", "L", "I", "C", "A", "T", "O", "R", "_", "S", "T",
           "R", "=", "\\", "\"", "C", "l", "o", "n", "e", "R", "1", "\\", "\"" >>
      [] s = "PLATFORM_X_OFFSET_STEPS=14444L" ->
        << "P", "L", "A", "T", "F", "O", "R", "M", "_", "X", "_", "O", "F",
           "F", "S", "E", "T", "_", "S", "T", "E", "P", "S", "=", "1", "4",
           "4", "4", "4", "L" >>
      [] s = "PLATFORM_Y_OFFSET_STEPS=8667L" ->
        << "P", "L", "A", "T", "F", "O", "R", "M", "_", "Y", "_", "O", "F",
           "F", "S", "E", "T", "_", "S", "T", "E", "P", "S", "=", "8", "6",
           "6", "7", "L" >>
      [] s = "PLATFORM_AXIS_LENGTHS={300L, 195L, 210L, 100000L, 100000L}" ->
        << "P", "L", "A", "T", "F", "O", "R", "M", "_", "A", "X", "I", "S",
           "_", "L", "E", "N", "G", "T", "H", "S", "=", "{", "3", "0", "0",
           "L", ",", " ", "1", "9", "5", "L", ",", " ", "2", "1", "0", "L",
           ",", " ", "1", "0", "0", "0", "0", "0", "L", ",", " ", "1", "0",
           "0", "0", "0", "0", "L", "}" >>
      [] s = "PLATFORM_AXIS_STEPS_PER_MM={88888889, 88888889, 400000000, 96275202, 96275202}" ->
        << "P", "L", "A", "T", "F", "O", "R", "M", "_", "A", "X", "I", "S",
           "_", "S", "T", "E", "P", "S", "_", "P", "E", "R", "_", "M", "M",
           "=", "{", "8", "8", "8", "8", "8", "8", "8", "9", ",", " ", "8",
           "8", "8", "8", "8", "8", "8", "9", ",", " ", "4", "0", "0", "0",
           "0", "0", "0", "0", "0", ",", " ", "9", "6", "2", "7", "5", "2",
           "0", "2", ",", " ", "9", "6", "2", "7", "5", "2", "0", "2", "}" >>
      [] s = "CLONE_R1" ->
        << "C", "L", "O", "N", "E", "_", "R", "1" >>
      [] s = "MAX31855" ->
        << "M", "A", "X", "3", "1", "8", "5", "5" >>
      [] s = "PLATFORM_SPLASH1_MSG=\\\"SF-Replicator2\\\"" ->
        << "P", "L", "A", "T", "F", "O", "R", "M", "_", "S", "P", "L", "A",
           "S", "H", "1", "_", "M", "S", "G", "=", "\\", "\"", "S", "F", "-",
           "R", "e", "p", "l", "i", "c", "a", "t", "o", "r", "2", "\\", "\"" >>
      [] s = "PLATFORM_TOOLHEAD_OFFSET_X=3100" ->
        << "P", "L", "A", "T", "F", "O", "R", "M", "_", "T", "O", "O", "L",
           "H", "E", "A", "D", "_", "O", "F", "F", "S", "E", "T", "_", "X",
           "=", "3", "1", "0", "0" >>
      [] s = "PLATFORM_THE_REPLICATOR_STR=\\\"Replicator 2\\\"" ->
        << "P", "L", "A", "T", "F", "O", "R", "M", "_", "T", "H", "E", "_",
           "R", "E", "P", "L", "I", "C", "A", "T", "O", "R", "_", "S", "T",
           "R", "=", "\\", "\"", "R", "e", "p", "l", "i", "c", "a", "t", "o",
           "r", " ", "2", "\\", "\"" >>
      [] s = "PLATFORM_MACHINE_ID=0xB015" ->
        << "P", "L", "A", "T", "F", "O", "R", "M", "_", "M", "A", "C", "H",
           "I", "N", "E", "_", "I", "D", "=", "0", "x", "B", "0", "1", "5" >>
      [] s = "PLATFORM_X_OFFSET_STEPS=13463L" ->
        << "P", "L", "A", "T", "F", "O", "R", "M", "_", "X", "_", "O", "F",
           "F", "S", "E", "T", "_", "S", "T", "E", "P", "S", "=", "1", "3",
           "4", "6", "3", "L" >>
      [] s = "PLATFORM_Y_OFFSET_STEPS=6643L" ->
        << "P", "L", "A", "T", "F", "O", "R", "M", "_", "Y", "_", "O", "F",
           "F", "S", "E", "T", "_", "S", "T", "E", "P", "S", "=", "6", "6",
           "4", "3", "L" >>
      [] s = "PLATFORM_AXIS_LENGTHS={285L, 152L, 155L, 100000L, 100000L}" ->
        << "P", "L", "A", "T", "F", "O", "R", "M", "_", "A", "X", "I", "S",
           "_", "L", "E", "N", "G", "T", "H", "S", "=", "{", "2", "8", "5",
           "L", ",", " ", "1", "5", "2", "L", ",", " ", "1", "5", "5", "L",
           ",", " ", "1", "0", "0", "0", "0", "0", "L", ",", " ", "1", "0",
           "0", "0", "0", "0", "L", "}" >>
      [] s = "PLATFORM_AXIS_STEPS_PER_MM={88573186, 88573186, 400000000, 96275202, 96275202}" ->
        << "P", "L", "A", "T", "F", "O", "R", "M", "_", "A", "X", "I", "S",
           "_", "S", "T", "E", "P", "S", "_", "P", "E", "R", "_", "M", "M",
           "=", "{", "8", "8", "5", "7", "3", "1", "8", "6", ",", " ", "8",
           "8", "5", "7", "3", "1", "8", "6", ",", " ", "4", "0", "0", "0",
           "0", "0", "0", "0", "0", ",", " ", "9", "6", "2", "7", "5", "2",
           "0", "2", ",", " ", "9", "6", "2", "7", "5", "2", "0", "2", "}" >>
      [] s = "PLATFORM_SPLASH1_MSG=\\\"SF-Rep2 CoreXY\\\"" ->
        << "P", "L", "A", "T", "F", "O", "R", "M", "_", "S", "P", "L", "A",
           "S", "H", "1", "_", "M", "S", "G", "=", "\\", "\"", "S", "F", "-",
           "R", "e", "p", "2", " ", "C", "o", "r", "e", "X", "Y", "\\", "\"" >>
      [] s = "PLATFORM_THE_REPLICATOR_STR=\\\"Rep2 CoreXY\\\"" ->
        << "P", "L", "A", "T", "F", "O", "R", "M", "_", "T", "H", "E", "_",
           "R", "E", "P", "L", "I", "C", "A", "T", "O", "R", "_", "S", "T",
           "R", "=", "\\", "\"", "R", "e", "p", "2", " ", "C", "o", "r", "e",
           "X", "Y", "\\", "\"" >>
      [] s = "PLATFORM_SPLASH1_MSG=\\\"SF-Rep 2X\\\"" ->
        << "P", "L", "A", "T", "F", "O", "R", "M", "_", "S", "P", "L", "A",
           "S", "H", "1", "_", "M", "S", "G", "=", "\\", "\"", "S", "F", "-",
           "R", "e", "p", " ", "2", "X", "\\", "\"" >>
      [] s = "PLATFORM_THE_REPLICATOR_STR=\\\"Replicator 2X\\\"" ->
        << "P", "L", "A", "T", "F", "O", "R", "M", "_", "T", "H", "E", "_",
           "R", "E", "P", "L", "I", "C", "A", "T", "O", "R", "_", "S", "T",
           "R", "=", "\\", "\"", "R", "e", "p", "l", "i", "c", "a", "t", "o",
           "r", " ", "2", "X", "\\", "\"" >>
      [] s = "PLATFORM_MACHINE_ID=0xB017" ->
        << "P", "L", "A", "T", "F", "O", "R", "M", "_", "M", "A", "C", "H",
           "I", "N", "E", "_", "I", "D", "=", "0", "x", "B", "0", "1", "7" >>
      [] s = "PLATFORM_AXIS_LENGTHS={246L, 152L, 155L, 100000L, 100000L}" ->
        << "P", "L", "A", "T", "F", "O", "R", "M", "_", "A", "X", "I", "S",
           "_", "L", "E", "N", "G", "T", "H", "S", "=", "{", "2", "4", "6",
           "L", ",", " ", "1", "5", "2", "L", ",", " ", "1", "5", "5", "L",
           ",", " ", "1", "0", "0", "0", "0", "0", "L", ",", " ", "1", "0",
           "0", "0", "0", "0", "L", "}" >>
      [] s = "PLATFORM_SPLASH1_MSG=\\\"SF-FF Creator\\\"" ->
        << "P", "L", "A", "T", "F", "O", "R", "M", "_", "S", "P", "L", "A",
           "S", "H", "1", "_", "M", "S", "G", "=", "\\", "\"", "S", "F", "-",
           "F", "F", " ", "C", "r", "e", "a", "t", "o", "r", "\\", "\"" >>
      [] s = "PLATFORM_TOOLHEAD_OFFSET_X=3201" ->
        << "P", "L", "A", "T", "F", "O", "R", "M", "_", "T", "O", "O", "L",
           "H", "E", "A", "D", "_", "O", "F", "F", "S", "E", "T", "_", "X",
           "=", "3", "2", "0", "1" >>
      [] s = "PLATFORM_THE_REPLICATOR_STR=\\\"FF Creator\\\"" ->
        << "P", "L", "A", "T", "F", "O", "R", "M", "_", "T", "H", "E", "_",
           "R", "E", "P", "L", "I", "C", "A", "T", "O", "R", "_", "S", "T",
           "R", "=", "\\", "\"", "F", "F", " ", "C", "r", "e", "a", "t", "o",
           "r", "\\", "\"" >>
      [] s = "PLATFORM_SPLASH1_MSG=\\\"SF-Creator\\\"" ->
        << "P", "L", "A", "T", "F", "O", "R", "M", "_", "S", "P", "L", "A",
           "S", "H", "1", "_", "M", "S", "G", "=", "\\", "\"", "S", "F", "-",
           "C", "r", "e", "a", "t", "o", "r", "\\", "\"" >>
      [] s = "HBP_SOFTPWM" ->
        << "H", "B", "P", "_", "S", "O", "F", "T", "P", "W", "M" >>
      [] s = "PLATFORM_SPLASH1_MSG=\\\"SF-FF CreatorX\\\"" ->
        << "P", "L", "A", "T", "F", "O", "R", "M", "_", "S", "P", "L", "A",
           "S", "H", "1", "_", "M", "S", "G", "=", "\\", "\"", "S", "F", "-",
           "F", "F", " ", "C", "r", "e", "a", "t", "o", "r", "X", "\\", "\"" >>
      [] s = "PLATFORM_THE_REPLICATOR_STR=\\\"Creator X / Pro\\\"" ->
        << "P", "L", "A", "T", "F", "O", "R", "M", "_", "T", "H", "E", "_",
           "R", "E", "P", "L", "I", "C", "A", "T", "O", "R", "_", "S", "T",
           "R", "=", "\\", "\"", "C", "r", "e", "a", "t", "o", "r", " ", "X",
           " ", "/", " ", "P", "r", "o", "\\", "\"" >>
      [] s = "PLATFORM_SPLASH1_MSG=\\\"SF-Wanhao Dup4\\\"" ->
        << "P", "L", "A", "T", "F", "O", "R", "M", "_", "S", "P", "L", "A",
           "S", "H", "1", "_", "M", "S", "G", "=", "\\", "\"", "S", "F", "-",
           "W", "a", "n", "h", "a", "o", " ", "D", "u", "p", "4", "\\", "\"" >>
      [] s = "PLATFORM_THE_REPLICATOR_STR=\\\"Wanhao Duplicatr\\\"" ->
        << "P", "L", "A", "T", "F", "O", "R", "M", "_", "T", "H", "E", "_",
           "R", "E", "P", "L", "I", "C", "A", "T", "O", "R", "_", "S", "T",
           "R", "=", "\\", "\"", "W", "a", "n", "h", "a", "o", " ", "D", "u",
           "p", "l", "i", "c", "a", "t", "r", "\\", "\"" >>
      [] s = "PLATFORM_X_OFFSET_STEPS=13763L" ->
        << "P", "L", "A", "T", "F", "O", "R", "M", "_", "X", "_", "O", "F",
           "F", "S", "E", "T", "_", "S", "T", "E", "P", "S", "=", "1", "3",
           "7", "6", "3", "L" >>
      [] s = "PLATFORM_Y_OFFSET_STEPS=6919L" ->
        << "P", "L", "A", "T", "F", "O", "R", "M", "_", "Y", "_", "O", "F",
           "F", "S", "E", "T", "_", "S", "T", "E", "P", "S", "=", "6", "9",
           "1", "9", "L" >>
      [] s = "ZYYX_3D_PRINTER" ->
        << "Z", "Y", "Y", "X", "_", "3", "D", "_", "P", "R", "I", "N", "T",
           "E", "R" >>
      [] s = "PLATFORM_SPLASH1_MSG=\\\"SF-ZYYX 3DP\\\"" ->
        << "P", "L", "A", "T", "F", "O", "R", "M", "_", "S", "P", "L", "A",
           "S", "H", "1", "_", "M", "S", "G", "=", "\\", "\"", "S", "F", "-",
           "Z", "Y", "Y", "X", " ", "3", "D", "P", "\\", "\"" >>
      [] s = "PLATFORM_THE_REPLICATOR_STR=\\\"ZYYX 3D Printer\\\"" ->
        << "P", "L", "A", "T", "F", "O", "R", "M", "_", "T", "H", "E", "_",
           "R", "E", "P", "L", "I", "C", "A", "T", "O", "R", "_", "S", "T",
           "R", "=", "\\", "\"", "Z", "Y", "Y", "X", " ", "3", "D", " ", "P",
           "r", "i", "n", "t", "e", "r", "\\", "\"" >>
      [] s = "PLATFORM_X_OFFSET_STEPS=11957L" ->
        << "P", "L", "A", "T", "F", "O", "R", "M", "_", "X", "_", "O", "F",
           "F", "S", "E", "T", "_", "S", "T", "E", "P", "S", "=", "1", "1",
           "9", "5", "7", "L" >>
      [] s = "PLATFORM_Y_OFFSET_STEPS=10186L" ->
        << "P", "L", "A", "T", "F", "O", "R", "M", "_", "Y", "_", "O", "F",
           "F", "S", "E", "T", "_", "S", "T", "E", "P", "S", "=", "1", "0",
           "1", "8", "6", "L" >>
      [] s = "PLATFORM_AXIS_LENGTHS={270L, 230L, 195L, 100000L, 100000L}" ->
        << "P", "L", "A", "T", "F", "O", "R", "M", "_", "A", "X", "I", "S",
           "_", "L", "E", "N", "G", "T", "H", "S", "=", "{", "2", "7", "0",
           "L", ",", " ", "2", "3", "0", "L", ",", " ", "1", "9", "5", "L",
           ",", " ", "1", "0", "0", "0", "0", "0", "L", ",", " ", "1", "0",
           "0", "0", "0", "0", "L", "}" >>
      [] s = "AUTO_LEVEL_ZYYX" ->
        << "A", "U", "T", "O", "_", "L", "E", "V", "E", "L", "_", "Z", "Y",
           "Y", "X" >>
      [] s = "ZYYX_LEVEL_SCRIPT" ->
        << "Z", "Y", "Y", "X", "_", "L", "E", "V", "E", "L", "_", "S", "C",
           "R", "I", "P", "T" >>
      [] s = "PLATFORM_SPLASH1_MSG=\\\"SF-Azteeg XYmx\\\"" ->
        << "P", "L", "A", "T", "F", "O", "R", "M", "_", "S", "P", "L", "A",
           "S", "H", "1", "_", "M", "S", "G", "=", "\\", "\"", "S", "F", "-",
           "A", "z", "t", "e", "e", "g", " ", "X", "Y", "m", "x", "\\", "\"" >>
      [] s = "PLATFORM_THE_REPLICATOR_STR=\\\"Azteeg X3\\\"" ->
        << "P", "L", "A", "T", "F", "O", "R", "M", "_", "T", "H", "E", "_",
           "R", "E", "P", "L", "I", "C", "A", "T", "O", "R", "_", "S", "T",
           "R", "=", "\\", "\"", "A", "z", "t", "e", "e", "g", " ", "X", "3",
           "\\", "\"" >>
      [] s = "PLATFORM_X_OFFSET_STEPS=14309L" ->
        << "P", "L", "A", "T", "F", "O", "R", "M", "_", "X", "_", "O", "F",
           "F", "S", "E", "T", "_", "S", "T", "E", "P", "S", "=", "1", "4",
           "3", "0", "9", "L" >>
      [] s = "PLATFORM_Y_OFFSET_STEPS=7060L" ->
        << "P", "L", "A", "T", "F", "O", "R", "M", "_", "Y", "_", "O", "F",
           "F", "S", "E", "T", "_", "S", "T", "E", "P", "S", "=", "7", "0",
           "6", "0", "L" >>
      [] s = "PLATFORM_VREF_DEFAULTS={127, 127, 127, 127, 127}" ->
        << "P", "L", "A", "T", "F", "O", "R", "M", "_", "V", "R", "E", "F",
           "_", "D", "E", "F", "A", "U", "L", "T", "S", "=", "{", "1", "2",
           "7", ",", " ", "1", "2", "7", ",", " ", "1", "2", "7", ",", " ",
           "1", "2", "7", ",", " ", "1", "2", "7", "}" >>
      [] s = "PLATFORM_THE_REPLICATOR_STR=\\\"Azteeg X3 CoreXY\\\"" ->
        << "P", "L", "A", "T", "F", "O", "R", "M", "_", "T", "H", "E", "_",
           "R", "E", "P", "L", "I", "C", "A", "T", "O", "R", "_", "S", "T",
           "R", "=", "\\", "\"", "A", "z", "t", "e", "e", "g", " ", "X", "3",
           " ", "C", "o", "r", "e", "X", "Y", "\\", "\"" >>
      [] s = "XY_MIN_HOMING" ->
        << "X", "Y", "_", "M", "I", "N", "_", "H", "O", "M", "I", "N", "G" >>
      [] s = "PLATFORM_SPLASH1_MSG=\\\"SF-Azteeg XYmn\\\"" ->
        << "P", "L", "A", "T", "F", "O", "R", "M", "_", "S", "P", "L", "A",
           "S", "H", "1", "_", "M", "S", "G", "=", "\\", "\"", "S", "F", "-",
           "A", "z", "t", "e", "e", "g", " ", "X", "Y", "m", "n", "\\", "\"" >>
      [] s = "PLATFORM_X_OFFSET_STEPS=0L" ->
        << "P", "L", "A", "T", "F", "O", "R", "M", "_", "X", "_", "O", "F",
           "F", "S", "E", "T", "_", "S", "T", "E", "P", "S", "=", "0", "L" >>
      [] s = "PLATFORM_Y_OFFSET_STEPS=0L" ->
        << "P", "L", "A", "T", "F", "O", "R", "M", "_", "Y", "_", "O", "F",
           "F", "S", "E", "T", "_", "S", "T", "E", "P", "S", "=", "0", "L" >>
      [] s = "__DELAY_BACKWARD_COMPATIBLE__" ->
        << "_", "_", "D", "E", "L", "A", "Y", "_", "B", "A", "C", "K", "W",
           "A", "R", "D", "_", "C", "O", "M", "P", "A", "T", "I", "B", "L",
           "E", "_", "_" >>
      [] s = "__PROG_TYPES_COMPAT__" ->
        << "_", "_", "P", "R", "O", "G", "_", "T", "Y", "P", "E", "S", "_",
           "C", "O", "M", "P", "A", "T", "_", "_" >>

\* The characters of the strings the composition is tried on.
SampleStrings ==
    { "A", "-A", "A=1", "A=2", "-A=2", "B", "-B", "B=1", "", "-", "=1", "-=1", "A=" }

SampleChars(s) ==
    CASE s = "A" ->
        << "A" >>
      [] s = "-A" ->
        << "-", "A" >>
      [] s = "A=1" ->
        << "A", "=", "1" >>
      [] s = "A=2" ->
        << "A", "=", "2" >>
      [] s = "-A=2" ->
        << "-", "A", "=", "2" >>
      [] s = "B" ->
        << "B" >>
      [] s = "-B" ->
        << "-", "B" >>
      [] s = "B=1" ->
        << "B", "=", "1" >>
      [] s = "" ->
        << >>
      [] s = "-" ->
        << "-" >>
      [] s = "=1" ->
        << "=", "1" >>
      [] s = "-=1" ->
        << "-", "=", "1" >>
      [] s = "A=" ->
        << "A", "=" >>

\* A Python str is the sequence of its characters.
Chars(s) == IF s \in SampleStrings THEN SampleChars(s) ELSE SourceChars(s)

(***************************************************************************)
(* Python dicts.                                                           *)
(***************************************************************************)
EmptyDict == [ keys |-> << >>, at |-> [ k \in {} |-> << >> ] ]

DictHas(d, k) == k \in DOMAIN d.at

DictGet(d, k) == d.at[k]

\* d[k] = v.  Overwriting a key keeps the dict's iteration order.  Where a
\* new key lands in the iteration order depends on its hash: front says
\* whether it lands before or after the keys already there.
DictSet(d, k, v, front) ==
    [ keys |-> IF k \in DOMAIN d.at THEN d.keys
               ELSE IF front THEN << k >> \o d.keys
               ELSE Append(d.keys, k),
      at   |-> [ x \in (DOMAIN d.at) \cup {k} |-> IF x = k THEN v ELSE d.at[x] ] ]

\* BaselineDict with a slip in the data: one entry's programmer left empty.
BaselineDictEmptyField(rev) ==
    [ keys |-> IF rev THEN Reverse(BaselineIds) ELSE BaselineIds,
      at   |-> [ id \in Range(BaselineIds) |->
                   IF id = "zyyx-1280"
                   THEN [ BaselineProfile(id) EXCEPT !.programmer = "" ]
                   ELSE BaselineProfile(id) ] ]

\* The baseline dict; its iteration order is the source order or its reverse.
BaselineDict(rev) ==
    [ keys |-> IF rev THEN Reverse(BaselineIds) ELSE BaselineIds,
      at   |-> [ id \in Range(BaselineIds) |-> BaselineProfile(id) ] ]

BaselineRef == 1

TmpRef == 2

ModDictInit == [ platforms |-> BaselineRef ]

\* TmpDictInit handing exec the registry itself: { 'platforms' : platforms }.
TmpDictAliased == [ n \in {"platforms"} |-> BaselineRef ]

TmpDictInit == [ n \in {"platforms"} |-> TmpRef ]

(***************************************************************************)
(* The site file.  Its content is the user's: a sequence of statements,    *)
(* each one of                                                             *)
(*    platforms[key] = value      (the documented use, header lines 3-17)  *)
(*    platforms = {key: value}    (rebinds the name to a new dict)         *)
(*    del platforms               (removes the name)                       *)
(*    a statement that raises     (evaluation fails at that statement)     *)
(*    a line that does not parse  (the whole file fails to compile)        *)
(***************************************************************************)
FrankenBoard ==
    [ mcu |-> "atmega2560",
      programmer |-> "stk500v2",
      board_directory |-> "mighty_one",
      defines |-> << "CORE_XY", "BUILD_STATS", "ALTERNATE_UART",
                     "HEATERS_ON_STEROIDS", "MAX31855",
                     "__DELAY_BACKWARD_COMPATIBLE__",
                     "__PROG_TYPES_COMPAT__" >> ]

\* An entry that carries one field only.
McuOnly == [ mcu |-> "atmega2560" ]

SiteKeys == { "franken-board", "mighty_one" }

\* An entry with a define whose value carries embedded quoting, as the
\* shipped entries do (line 138).
QuotedBoard ==
    [ mcu |-> "atmega1280",
      programmer |-> "stk500v1",
      board_directory |-> "mighty_one",
      defines |-> << "PLATFORM_SPLASH1_MSG=\\\"SF-Replicator1\\\"", "BUILD_STATS" >> ]

SiteValues == { FrankenBoard, McuOnly, QuotedBoard }

Stmts ==
    { [ op |-> "assign", key |-> k, value |-> v ] : k \in SiteKeys, v \in SiteValues }
    \cup { [ op |-> "rebind", key |-> "franken-board", value |-> FrankenBoard ] }
    \cup { [ op |-> o ] : o \in { "del", "raise", "syntax" } }

SeqsUpTo(S, n) == UNION { [ 1..m -> S ] : m \in 0..n }

Sites ==
    { [ exists |-> FALSE, stmts |-> << >> ] }
    \cup { [ exists |-> TRUE, stmts |-> s ] : s \in SeqsUpTo(Stmts, MaxStmts) }

(***************************************************************************)
(* The callers of the loaded module: code that imports platforms.py and    *)
(* then looks platforms up or enumerates them.  Each caller makes its      *)
(* calls one after the other; the callers run concurrently.                *)
(***************************************************************************)
Callers == { "c1", "c2" }

Idle == [ op |-> "idle", arg |-> "", pos |-> 1, acc |-> << >>, prof |-> << >>,
          made |-> 0, last |-> [ kind |-> "none" ] ]

NoCalls == [ c \in Callers |-> Idle ]

NoneSeen == [ id \in {} |-> [ error |-> "none" ] ]

(***************************************************************************)
(* Module top level, lines 877-898.                                        *)
(***************************************************************************)
Init ==
    /\ pc = "isfile"
    /\ \E rev \in BOOLEAN : heap = << BaselineDict(rev), EmptyDict >>
    /\ mod_dict = ModDictInit
    /\ tmp_dict = TmpDictInit
    /\ site \in Sites
    /\ name_main \in BOOLEAN
    /\ ip = 0
    /\ err = "none"
    /\ out = << >>
    /\ dirs = << >>
    /\ ci = 0
    /\ cmap = << >>
    /\ cerr = "none"
    /\ calls = NoCalls
    /\ seen = NoneSeen
    /\ listed = << >>

\* CheckSiteFile without the isfile test.
CheckSiteFileNoGuard ==
    /\ pc = "isfile"
    /\ pc' = "exec"
    /\ UNCHANGED << heap, mod_dict, tmp_dict, site, name_main, ip, err, out >>
    /\ UNCHANGED composeVars
    /\ UNCHANGED callVars

\* if isfile(site_file):
CheckSiteFile ==
    /\ pc = "isfile"
    /\ pc' = IF site.exists THEN "exec" ELSE "main"
    /\ UNCHANGED << heap, mod_dict, tmp_dict, site, name_main, ip, err, out >>
    /\ UNCHANGED composeVars
    /\ UNCHANGED callVars

\* Raise under a try/except that passes: the loader goes on with the merge.
RaiseSwallowed(e) ==
    /\ pc' = "merge"
    /\ err' = e
    /\ UNCHANGED << heap, mod_dict, tmp_dict, site, name_main, ip, out >>

\* an exception leaves the module's top-level code
Raise(e) ==
    /\ pc' = "failed"
    /\ err' = e
    /\ UNCHANGED << heap, mod_dict, tmp_dict, site, name_main, ip, out >>

\* with open(site_file) as f: exec(f.read(), tmp_dict), up to the first
\* statement: open raises IOError on a file that is not there, and exec
\* compiles the whole text before it runs any of it.
ExecCompile ==
    /\ pc = "exec"
    /\ ip = 0
    /\ IF ~site.exists
       THEN Raise("IOError")
       ELSE IF \E i \in 1..Len(site.stmts) : site.stmts[i].op = "syntax"
       THEN Raise("SyntaxError")
       ELSE /\ ip' = 1
            /\ UNCHANGED << pc, heap, mod_dict, tmp_dict, site, name_main, err, out >>
    /\ UNCHANGED composeVars
    /\ UNCHANGED callVars

Running(o) ==
    /\ pc = "exec"
    /\ ip \in 1..Len(site.stmts)
    /\ site.stmts[ip].op = o

\* ExecAssign with the registry itself behind the name platforms.
ExecAssignLive ==
    /\ Running("assign")
    /\ IF "platforms" \in DOMAIN tmp_dict
       THEN /\ \E front \in BOOLEAN :
                 heap' = [ heap EXCEPT ![mod_dict.platforms] =
                             DictSet(@, site.stmts[ip].key, site.stmts[ip].value, front) ]
            /\ ip' = ip + 1
            /\ UNCHANGED << pc, mod_dict, tmp_dict, site, name_main, err, out >>
       ELSE Raise("NameError")
    /\ UNCHANGED composeVars
    /\ UNCHANGED callVars

\* platforms[key] = value, run with tmp_dict as its globals.
ExecAssign ==
    /\ Running("assign")
    /\ IF "platforms" \in DOMAIN tmp_dict
       THEN /\ \E front \in BOOLEAN :
                 heap' = [ heap EXCEPT ![tmp_dict["platforms"]] =
                             DictSet(@, site.stmts[ip].key, site.stmts[ip].value, front) ]
            /\ ip' = ip + 1
            /\ UNCHANGED << pc, mod_dict, tmp_dict, site, name_main, err, out >>
       ELSE Raise("NameError")
    /\ UNCHANGED composeVars
    /\ UNCHANGED callVars

\* platforms = {key: value}: a new dict, bound to the name in tmp_dict.
ExecRebind ==
    /\ Running("rebind")
    /\ heap' = Append(heap, DictSet(EmptyDict, site.stmts[ip].key, site.stmts[ip].value, FALSE))
    /\ tmp_dict' = [ n \in (DOMAIN tmp_dict) \cup {"platforms"} |->
                       IF n = "platforms" THEN Len(heap) + 1 ELSE tmp_dict[n] ]
    /\ ip' = ip + 1
    /\ UNCHANGED << pc, mod_dict, site, name_main, err, out >>
    /\ UNCHANGED composeVars
    /\ UNCHANGED callVars

\* del platforms
ExecDel ==
    /\ Running("del")
    /\ IF "platforms" \in DOMAIN tmp_dict
       THEN /\ tmp_dict' = [ n \in (DOMAIN tmp_dict) \ {"platforms"} |-> tmp_dict[n] ]
            /\ ip' = ip + 1
            /\ UNCHANGED << pc, heap, mod_dict, site, name_main, err, out >>
       ELSE Raise("NameError")
    /\ UNCHANGED composeVars
    /\ UNCHANGED callVars

\* a statement whose evaluation raises
ExecRaise ==
    /\ Running("raise")
    /\ Raise("Exception")
    /\ UNCHANGED composeVars
    /\ UNCHANGED callVars

\* ExecEnd that evaluates the site file once more before going on.
ExecEndAgain ==
    /\ pc = "exec"
    /\ ip = Len(site.stmts) + 1
    /\ pc' = "exec"
    /\ ip' = 1
    /\ UNCHANGED << heap, mod_dict, tmp_dict, site, name_main, err, out >>
    /\ UNCHANGED composeVars
    /\ UNCHANGED callVars

\* exec returns
ExecEnd ==
    /\ pc = "exec"
    /\ ip = Len(site.stmts) + 1
    /\ pc' = "merge"
    /\ UNCHANGED << heap, mod_dict, tmp_dict, site, name_main, ip, err, out >>
    /\ UNCHANGED composeVars
    /\ UNCHANGED callVars

\* MergeAssign as a field-level merge: platforms[key].update(tmp_platforms[key]).
MergeAssignFieldwise(reg, ext, key, front) ==
    IF DictHas(reg, key)
    THEN LET old == DictGet(reg, key)
             new == DictGet(ext, key)
         IN  DictSet(reg, key,
                     [ f \in (DOMAIN old) \cup (DOMAIN new) |->
                         IF f \in DOMAIN new THEN new[f] ELSE old[f] ],
                     front)
    ELSE DictSet(reg, key, DictGet(ext, key), front)

\* MergeAssign that only overrides platforms the registry already knows.
MergeAssignOnlyKnown(reg, ext, key, front) ==
    IF DictHas(reg, key) THEN DictSet(reg, key, DictGet(ext, key), front) ELSE reg

\* MergeAssign that stores the profile without the defines that carry a
\* quoted value.
MergeAssignUnquoted(reg, ext, key, front) ==
    LET p == DictGet(ext, key)
    IN  DictSet(reg, key,
                IF "defines" \in DOMAIN p
                THEN [ p EXCEPT !.defines =
                           SelectSeq(@, LAMBDA d : "\"" \notin Range(Chars(d))) ]
                ELSE p,
                front)

\* MergeAssign that takes an id the registry knows out of it and only adds
\* the ids that are new.
MergeAssignDropsKnown(reg, ext, key, front) ==
    IF DictHas(reg, key)
    THEN [ keys |-> SelectSeq(reg.keys, LAMBDA k : k # key),
           at   |-> [ x \in (DOMAIN reg.at) \ {key} |-> reg.at[x] ] ]
    ELSE DictSet(reg, key, DictGet(ext, key), front)

\* MergeAssign that rewrites the registry as it stores the entry: the
\* define lists of the other profiles come out in reverse order.
MergeAssignReordersOthers(reg, ext, key, front) ==
    LET set == DictSet(reg, key, DictGet(ext, key), front)
    IN  [ keys |-> set.keys,
          at   |-> [ x \in DOMAIN set.at |->
                       IF x # key /\ "defines" \in DOMAIN set.at[x]
                       THEN [ set.at[x] EXCEPT !.defines = Reverse(@) ]
                       ELSE set.at[x] ] ]

\* platforms[key] = tmp_platforms[key]
MergeAssign(reg, ext, key, front) == DictSet(reg, key, DictGet(ext, key), front)

RECURSIVE MergeLoop(_, _, _, _)
\* for key in tmp_platforms: ...   (i is the position of the iteration)
MergeLoop(reg, ext, i, front) ==
    IF i > Len(ext.keys) THEN reg
    ELSE MergeLoop(MergeAssign(reg, ext, ext.keys[i], front), ext, i + 1, front)

\* Merge building the merged registry as a new dict and rebinding platforms.
MergeIntoCopy ==
    /\ pc = "merge"
    /\ IF "platforms" \in DOMAIN tmp_dict
       THEN /\ \E front \in BOOLEAN :
                 heap' = Append(heap, MergeLoop(heap[mod_dict.platforms],
                                                heap[tmp_dict["platforms"]], 1, front))
            /\ mod_dict' = [ mod_dict EXCEPT !.platforms = Len(heap) + 1 ]
       ELSE heap' = heap /\ mod_dict' = mod_dict
    /\ pc' = "main"
    /\ UNCHANGED << tmp_dict, site, name_main, ip, err, out >>
    /\ UNCHANGED composeVars
    /\ UNCHANGED callVars

\* Merge that keeps hold of the dict made at line 879 and merges that one,
\* whatever the name platforms is bound to after the evaluation.
MergeFirstMapping ==
    /\ pc = "merge"
    /\ \E front \in BOOLEAN :
           heap' = [ heap EXCEPT ![mod_dict.platforms] =
                       MergeLoop(@, heap[TmpRef], 1, front) ]
    /\ pc' = "main"
    /\ UNCHANGED << mod_dict, tmp_dict, site, name_main, ip, err, out >>
    /\ UNCHANGED composeVars
    /\ UNCHANGED callVars

\* if 'platforms' in tmp_dict: tmp_platforms = tmp_dict['platforms']; for ...
Merge ==
    /\ pc = "merge"
    /\ IF "platforms" \in DOMAIN tmp_dict
       THEN \E front \in BOOLEAN :
                heap' = [ heap EXCEPT ![mod_dict.platforms] =
                            MergeLoop(@, heap[tmp_dict["platforms"]], 1, front) ]
       ELSE heap' = heap
    /\ pc' = "main"
    /\ UNCHANGED << mod_dict, tmp_dict, site, name_main, ip, err, out >>
    /\ UNCHANGED composeVars
    /\ UNCHANGED callVars

RECURSIVE MainLoop(_, _, _)
\* for key in platforms: list += key + ' '
MainLoop(d, i, list) ==
    IF i > Len(d.keys) THEN list
    ELSE MainLoop(d, i + 1, list \o << d.keys[i], " " >>)

\* DropLast that keeps the whole text.
DropLastNothing(list) == list

\* list[:-1].  The text is kept as tokens, a key or a blank; a text that is
\* not empty ends in a blank, so its last character is its last token.
DropLast(list) == SubSeq(list, 1, Len(list) - 1)

\* print adds the newline
WriteLine(text) == Append(text, "\n")

\* if __name__ == '__main__': ...
Main ==
    /\ pc = "main"
    /\ out' = IF name_main
              THEN out \o WriteLine(DropLast(MainLoop(heap[mod_dict.platforms], 1, << >>)))
              ELSE out
    /\ pc' = "done"
    /\ UNCHANGED << heap, mod_dict, tmp_dict, site, name_main, ip, err >>
    /\ UNCHANGED composeVars
    /\ UNCHANGED callVars

Next ==
    \/ CheckSiteFile
    \/ ExecCompile
    \/ ExecAssign
    \/ ExecRebind
    \/ ExecDel
    \/ ExecRaise
    \/ ExecEnd
    \/ Merge
    \/ Main

Spec == Init /\ [][Next]_vars

(***************************************************************************)
(* Define composition.  platforms.py holds the define lists and says how   *)
(* they are read ("Any string prefixed with '-' will be removed from the   *)
(* list of #defines to establish"); the code that composes them is the     *)
(* build script's, and is modelled here from the specification, section    *)
(* 4.3.  The composed mapping is a sequence of entries in insertion order. *)
(***************************************************************************)
FirstEq(cs) ==
    IF \E i \in 1..Len(cs) : cs[i] = "="
    THEN CHOOSE i \in 1..Len(cs) : cs[i] = "=" /\ \A j \in 1..(i - 1) : cs[j] # "="
    ELSE 0

\* A directive read from its characters: -NAME, -NAME=value, NAME, NAME=value.
ParseDirective(s) ==
    LET cs   == Chars(s)
        neg  == Len(cs) > 0 /\ cs[1] = "-"
        body == IF neg THEN Tail(cs) ELSE cs
        eq   == FirstEq(body)
        name == IF eq = 0 THEN body ELSE SubSeq(body, 1, eq - 1)
    IN  [ neg   |-> neg,
          name  |-> name,
          has   |-> eq # 0,
          value |-> IF eq = 0 THEN << >> ELSE SubSeq(body, eq + 1, Len(body)),
          valid |-> name # << >> ]

DirectiveName(s) == ParseDirective(s).name

MapNames(m) == { m[i].name : i \in 1..Len(m) }

Entry(p) == [ name |-> p.name, has |-> p.has, value |-> p.value ]

\* ApplyDirective that passes a subtractive directive by: nothing is removed.
ApplyDirectiveNoRemove(m, p) ==
    IF p.neg THEN m
    ELSE IF p.name \in MapNames(m)
    THEN [ i \in 1..Len(m) |-> IF m[i].name = p.name THEN Entry(p) ELSE m[i] ]
    ELSE Append(m, Entry(p))

\* ApplyDirective that keeps the first value of a name: a later one is dropped.
ApplyDirectiveFirstWins(m, p) ==
    IF p.neg THEN SelectSeq(m, LAMBDA e : e.name # p.name)
    ELSE IF p.name \in MapNames(m) THEN m
    ELSE Append(m, Entry(p))

\* ApplyDirective that removes by the whole text, name and value.
ApplyDirectiveRemoveExact(m, p) ==
    IF p.neg THEN SelectSeq(m, LAMBDA e : e # Entry(p))
    ELSE IF p.name \in MapNames(m)
    THEN [ i \in 1..Len(m) |-> IF m[i].name = p.name THEN Entry(p) ELSE m[i] ]
    ELSE Append(m, Entry(p))

\* One directive applied to the mapping: an additive one inserts or
\* overwrites its name, a subtractive one removes its name if present.
ApplyDirective(m, p) ==
    IF p.neg THEN SelectSeq(m, LAMBDA e : e.name # p.name)
    ELSE IF p.name \in MapNames(m)
    THEN [ i \in 1..Len(m) |-> IF m[i].name = p.name THEN Entry(p) ELSE m[i] ]
    ELSE Append(m, Entry(p))

NoError == [ error |-> "none", position |-> 0, directive |-> "" ]

Directives == { "A", "-A", "A=1", "A=2", "-A=2", "B", "-B", "=1", "-" }

InitCompose ==
    /\ pc = "compose"
    /\ heap = << BaselineDict(FALSE), EmptyDict >>
    /\ mod_dict = ModDictInit
    /\ tmp_dict = TmpDictInit
    /\ site = [ exists |-> FALSE, stmts |-> << >> ]
    /\ name_main = FALSE
    /\ ip = 0
    /\ err = "none"
    /\ out = << >>
    /\ dirs \in SeqsUpTo(Directives, MaxDirs)
    /\ ci = 0
    /\ cmap = << >>
    /\ cerr = NoError
    /\ calls = NoCalls
    /\ seen = NoneSeen
    /\ listed = << >>

Composing ==
    /\ pc = "compose"
    /\ cerr = NoError
    /\ ci < Len(dirs)

\* the next directive is well formed: it is applied
ComposeApply ==
    /\ Composing
    /\ ParseDirective(dirs[ci + 1]).valid
    /\ cmap' = ApplyDirective(cmap, ParseDirective(dirs[ci + 1]))
    /\ ci' = ci + 1
    /\ UNCHANGED << dirs, cerr >>
    /\ UNCHANGED loadVars
    /\ UNCHANGED callVars

\* ComposeReject that drops the malformed directive and goes on.
ComposeRejectSkips ==
    /\ Composing
    /\ ~ParseDirective(dirs[ci + 1]).valid
    /\ ci' = ci + 1
    /\ UNCHANGED << dirs, cmap, cerr >>
    /\ UNCHANGED loadVars
    /\ UNCHANGED callVars

\* the next directive is malformed: the whole composition fails
ComposeReject ==
    /\ Composing
    /\ ~ParseDirective(dirs[ci + 1]).valid
    /\ cerr' = [ error |-> "InvalidDefineError", position |-> ci + 1,
                 directive |-> dirs[ci + 1] ]
    /\ cmap' = << >>
    /\ UNCHANGED << dirs, ci >>
    /\ UNCHANGED loadVars
    /\ UNCHANGED callVars

NextCompose ==
    \/ ComposeApply
    \/ ComposeReject

SpecCompose == InitCompose /\ [][NextCompose]_vars

(***************************************************************************)
(* The registry and the extension mapping, as the claims speak of them.    *)
(***************************************************************************)
Registry == heap[mod_dict.platforms]

ExtBound == "platforms" \in DOMAIN tmp_dict

\* the mapping the merge reads: tmp_dict['platforms'] once exec has returned
ExtMap == IF ExtBound THEN heap[tmp_dict["platforms"]] ELSE EmptyDict

ExtIds == DOMAIN ExtMap.at

BaselineAt == [ id \in Range(BaselineIds) |-> BaselineProfile(id) ]

\* the module's top-level code has run to its end without an exception
Initialized == pc \in { "main", "done" }

\* ... and it has loaded the site file
Loaded == Initialized /\ site.exists

(***************************************************************************)
(* Calls on the loaded module.  An enumeration is the loop of lines        *)
(* 896-897, for key in platforms, run by a caller: a fresh iteration over  *)
(* the registry, one key a step.  A lookup is resolve(id) of the           *)
(* specification, section 4.4: the profile of the id with its defines      *)
(* composed, or an error outcome; it reads the registry, then composes.    *)
(***************************************************************************)
QueryIds == { "mighty_one", "franken-board", "no-such-platform" }

RECURSIVE CallsMade(_)
CallsMade(cs) ==
    IF cs = {} THEN 0
    ELSE LET c == CHOOSE x \in cs : TRUE IN calls[c].made + CallsMade(cs \ {c})

\* the module has been imported, and a caller may start a call
MayCall(c) ==
    /\ pc = "done"
    /\ ~name_main
    /\ calls[c].op = "idle"
    /\ CallsMade(Callers) < MaxCalls

RECURSIVE ComposeAll(_, _, _)
\* the composition of a whole define list, from directive i on
ComposeAll(ds, i, m) ==
    IF i > Len(ds) THEN [ error |-> NoError, map |-> m ]
    ELSE IF ~ParseDirective(ds[i]).valid
    THEN [ error |-> [ error |-> "InvalidDefineError", position |-> i,
                       directive |-> ds[i] ],
           map |-> << >> ]
    ELSE ComposeAll(ds, i + 1, ApplyDirective(m, ParseDirective(ds[i])))

\* what resolve(id) returns for the profile it found (found is << >> or
\* << profile >>)
ResolveOutcome(found, id) ==
    IF Len(found) = 0
    THEN [ error |-> "UnknownPlatformError", id |-> id ]
    ELSE LET p == found[1]
         IN  IF "defines" \notin DOMAIN p
             THEN [ error |-> "none", profile |-> p ]
             ELSE LET c == ComposeAll(p.defines, 1, << >>)
                  IN  IF c.error # NoError
                      THEN c.error
                      ELSE [ error |-> "none",
                             profile |-> [ f \in DOMAIN p |->
                                             IF f = "defines" THEN c.map ELSE p[f] ] ]

\* FindProfile that answers an unknown id with an empty profile.
FindProfileOrDefault(reg, id) ==
    IF DictHas(reg, id) THEN << DictGet(reg, id) >> ELSE << [ defines |-> << >> ] >>

\* the registry entry of the id, if there is one
FindProfile(reg, id) ==
    IF DictHas(reg, id) THEN << DictGet(reg, id) >> ELSE << >>

\* resolve(id), first half: the registry is read
ResolveStart(c, id) ==
    /\ MayCall(c)
    /\ calls' = [ calls EXCEPT ![c] =
                    [ @ EXCEPT !.op = "resolve", !.arg = id, !.made = @ + 1,
                               !.prof = FindProfile(Registry, id) ] ]
    /\ UNCHANGED << seen, listed >>
    /\ UNCHANGED loadVars
    /\ UNCHANGED composeVars

\* ResolveFinish that composes in place: the registry's define list of the
\* id is replaced by the names the composition kept.
ResolveFinishInPlace(c) ==
    /\ pc = "done"
    /\ calls[c].op = "resolve"
    /\ LET id      == calls[c].arg
           outcome == ResolveOutcome(calls[c].prof, id)
       IN  /\ calls' = [ calls EXCEPT ![c] =
                           [ @ EXCEPT !.op = "idle", !.prof = << >>,
                                      !.last = [ kind |-> "resolve", id |-> id,
                                                 value |-> outcome ] ] ]
           /\ seen' = IF id \in DOMAIN seen THEN seen
                      ELSE [ x \in (DOMAIN seen) \cup {id} |->
                               IF x = id THEN outcome ELSE seen[x] ]
           /\ heap' = IF DictHas(Registry, id) /\ "defines" \in DOMAIN DictGet(Registry, id)
                      THEN [ heap EXCEPT ![mod_dict.platforms].at[id].defines = << >> ]
                      ELSE heap
    /\ UNCHANGED << pc, mod_dict, tmp_dict, site, name_main, ip, err, out, listed >>
    /\ UNCHANGED composeVars

\* resolve(id), second half: the defines are composed and the call returns
ResolveFinish(c) ==
    /\ pc = "done"
    /\ calls[c].op = "resolve"
    /\ LET id      == calls[c].arg
           outcome == ResolveOutcome(calls[c].prof, id)
       IN  /\ calls' = [ calls EXCEPT ![c] =
                           [ @ EXCEPT !.op = "idle", !.prof = << >>,
                                      !.last = [ kind |-> "resolve", id |-> id,
                                                 value |-> outcome ] ] ]
           /\ seen' = IF id \in DOMAIN seen THEN seen
                      ELSE [ x \in (DOMAIN seen) \cup {id} |->
                               IF x = id THEN outcome ELSE seen[x] ]
    /\ UNCHANGED listed
    /\ UNCHANGED loadVars
    /\ UNCHANGED composeVars

\* EnumStart that goes on from where the caller's last iteration stopped.
EnumStartNoReset(c) ==
    /\ MayCall(c)
    /\ calls' = [ calls EXCEPT ![c] =
                    [ @ EXCEPT !.op = "enum", !.made = @ + 1, !.acc = << >> ] ]
    /\ UNCHANGED << seen, listed >>
    /\ UNCHANGED loadVars
    /\ UNCHANGED composeVars

\* for key in platforms: a new iteration, from the first key
EnumStart(c) ==
    /\ MayCall(c)
    /\ calls' = [ calls EXCEPT ![c] =
                    [ @ EXCEPT !.op = "enum", !.made = @ + 1, !.pos = 1,
                               !.acc = << >> ] ]
    /\ UNCHANGED << seen, listed >>
    /\ UNCHANGED loadVars
    /\ UNCHANGED composeVars

\* EnumNext that takes the keys out of the registry as it yields them.
EnumNextPopping(c) ==
    /\ pc = "done"
    /\ calls[c].op = "enum"
    /\ LET reg == Registry
       IN  IF Len(reg.keys) > 0
           THEN /\ calls' = [ calls EXCEPT ![c].acc = Append(@, reg.keys[1]) ]
                /\ heap' = [ heap EXCEPT ![mod_dict.platforms] =
                               [ keys |-> Tail(reg.keys),
                                 at   |-> [ k \in (DOMAIN reg.at) \ { reg.keys[1] } |->
                                              reg.at[k] ] ] ]
                /\ UNCHANGED listed
           ELSE /\ calls' = [ calls EXCEPT ![c] =
                                [ @ EXCEPT !.op = "idle",
                                           !.last = [ kind |-> "enum",
                                                      value |-> calls[c].acc ] ] ]
                /\ listed' = IF Len(listed) = 0 THEN << calls[c].acc >> ELSE listed
                /\ heap' = heap
    /\ UNCHANGED << pc, mod_dict, tmp_dict, site, name_main, ip, err, out, seen >>
    /\ UNCHANGED composeVars

\* the iteration yields its next key, or ends
EnumNext(c) ==
    /\ pc = "done"
    /\ calls[c].op = "enum"
    /\ IF calls[c].pos <= Len(Registry.keys)
       THEN /\ calls' = [ calls EXCEPT ![c] =
                            [ @ EXCEPT !.acc = Append(@, Registry.keys[calls[c].pos]),
                                       !.pos = @ + 1 ] ]
            /\ UNCHANGED listed
       ELSE /\ calls' = [ calls EXCEPT ![c] =
                            [ @ EXCEPT !.op = "idle",
                                       !.last = [ kind |-> "enum",
                                                  value |-> calls[c].acc ] ] ]
            /\ listed' = IF Len(listed) = 0 THEN << calls[c].acc >> ELSE listed
    /\ UNCHANGED seen
    /\ UNCHANGED loadVars
    /\ UNCHANGED composeVars

Resolve == \E c \in Callers, id \in QueryIds : ResolveStart(c, id)

Resolved == \E c \in Callers : ResolveFinish(c)

Enumerate == \E c \in Callers : EnumStart(c)

Enumerating == \E c \in Callers : EnumNext(c)

\* a site-file entry whose define list holds a directive without a name
BadDefines ==
    [ mcu |-> "atmega2560",
      programmer |-> "stk500v2",
      board_directory |-> "mighty_one",
      defines |-> << "CORE_XY", "=1", "BUILD_STATS" >> ]

\* the site files the callers are tried with
CallSites ==
    { [ exists |-> FALSE, stmts |-> << >> ],
      [ exists |-> TRUE,
        stmts |-> << [ op |-> "assign", key |-> "franken-board", value |-> FrankenBoard ],
                     [ op |-> "assign", key |-> "mighty_one", value |-> McuOnly ] >> ],
      [ exists |-> TRUE,
        stmts |-> << [ op |-> "assign", key |-> "franken-board", value |-> BadDefines ] >> ],
      [ exists |-> TRUE,
        stmts |-> << [ op |-> "rebind", key |-> "franken-board", value |-> FrankenBoard ],
                     [ op |-> "del" ] >> ],
      [ exists |-> TRUE,
        stmts |-> << [ op |-> "assign", key |-> "franken-board", value |-> FrankenBoard ],
                     [ op |-> "raise" ] >> ],
      [ exists |-> TRUE, stmts |-> << [ op |-> "syntax" ] >> ] }

InitCalls ==
    /\ pc = "isfile"
    /\ heap = << BaselineDict(FALSE), EmptyDict >>
    /\ mod_dict = ModDictInit
    /\ tmp_dict = TmpDictInit
    /\ site \in CallSites
    /\ name_main \in BOOLEAN
    /\ ip = 0
    /\ err = "none"
    /\ out = << >>
    /\ dirs = << >>
    /\ ci = 0
    /\ cmap = << >>
    /\ cerr = "none"
    /\ calls = NoCalls
    /\ seen = NoneSeen
    /\ listed = << >>

NextCalls ==
    \/ CheckSiteFile
    \/ ExecCompile
    \/ ExecAssign
    \/ ExecRebind
    \/ ExecDel
    \/ ExecRaise
    \/ ExecEnd
    \/ Merge
    \/ Main
    \/ Resolve
    \/ Resolved
    \/ Enumerate
    \/ Enumerating

SpecCalls == InitCalls /\ [][NextCalls]_vars

(***************************************************************************)
(* Claims about loading and merging, checked under Spec.                   *)
(***************************************************************************)

\* C1: once the site file is loaded, the registry entry of every id of the
\* extension mapping is exactly the extension's profile, with the
\* extension's fields and no others: a baseline field the extension's
\* profile does not carry is gone.
C1_MergeReplacesWholeProfile ==
    Loaded =>
        \A k \in ExtIds :
            /\ DictHas(Registry, k)
            /\ DictGet(Registry, k) = DictGet(ExtMap, k)
            /\ DOMAIN DictGet(Registry, k) = DOMAIN DictGet(ExtMap, k)

\* a baseline id overridden by a profile that carries the mcu only
C1_Witness ==
    /\ Loaded
    /\ "mighty_one" \in ExtIds
    /\ DictGet(ExtMap, "mighty_one") = McuOnly
    /\ DOMAIN DictGet(Registry, "mighty_one") = { "mcu" }

\* C2: an id the extension mapping defines and the baseline does not have is
\* in the registry once the site file is loaded, and is among the ids the
\* enumeration prints.
C2_NewIdKnownAndListed ==
    Loaded =>
        \A k \in ExtIds \ Range(BaselineIds) :
            /\ DictHas(Registry, k)
            /\ (pc = "done" /\ name_main) => k \in Range(out)

C2_Witness ==
    /\ pc = "done"
    /\ name_main
    /\ site.exists
    /\ "franken-board" \in ExtIds
    /\ "franken-board" \in Range(out)

\* C3: without a site file the module never opens, runs or merges anything,
\* ends in no exception and can always take its next step until it is done,
\* and its registry is the baseline: the same ids, each with the same
\* profile.
C3_AbsentSiteFile ==
    ~site.exists =>
        /\ pc \in { "isfile", "main", "done" }
        /\ err = "none"
        /\ pc # "done" => ENABLED Next
        /\ Initialized =>
               /\ Registry.at = BaselineAt
               /\ Range(Registry.keys) = Range(BaselineIds)

C3_Witness ==
    /\ ~site.exists
    /\ pc = "done"
    /\ Registry.at = BaselineAt

\* C4: while the site file is being evaluated, and after its evaluation has
\* failed, the registry is the baseline: nothing the file has assigned so
\* far is in it.
C4_NoPartialApply ==
    pc \in { "exec", "failed" } =>
        /\ Registry.at = BaselineAt
        /\ \A k \in ExtIds \ Range(BaselineIds) : ~DictHas(Registry, k)

\* the evaluation failed after the file had assigned an entry
C4_Witness ==
    /\ pc = "failed"
    /\ ip >= 2
    /\ ExtBound
    /\ ExtIds # {}
    /\ Registry.at = BaselineAt

\* C5, as claimed: after a merge of a mapping that is not empty, the dict
\* built as the baseline still holds the baseline's ids and profiles and the
\* merged registry is another dict.
C5_BaselineObjectUntouched ==
    (Loaded /\ ExtIds # {}) =>
        /\ heap[BaselineRef].at = BaselineAt
        /\ mod_dict.platforms # BaselineRef

\* C5, amended: the merge writes into the dict built as the baseline.  After
\* a merge of a mapping that is not empty that dict is the merged registry:
\* it holds the extension's profile for the extension's ids and the baseline
\* profile for the other baseline ids, and the merge has made no new dict.
C5_MergeInPlace ==
    (Loaded /\ ExtIds # {}) =>
        /\ mod_dict.platforms = BaselineRef
        /\ DOMAIN heap[BaselineRef].at = Range(BaselineIds) \cup ExtIds
        /\ \A k \in ExtIds : heap[BaselineRef].at[k] = ExtMap.at[k]
        /\ \A k \in Range(BaselineIds) \ ExtIds : heap[BaselineRef].at[k] = BaselineAt[k]
        /\ Len(heap) = 2 + Cardinality({ i \in 1..Len(site.stmts) :
                                            site.stmts[i].op = "rebind" })

C5_Witness ==
    /\ Loaded
    /\ ExtIds # {}
    /\ mod_dict.platforms = BaselineRef
    /\ heap[BaselineRef].at # BaselineAt

RequiredFields == { "mcu", "programmer", "board_directory" }

\* the registry is the one the dict display built: nothing has been merged
Unmerged == pc \in { "isfile", "exec", "merge" } \/ ~site.exists

\* C6: as long as nothing has been merged, every baseline id is a key of
\* the registry (looking it up raises no KeyError) and its profile has an
\* mcu, a programmer and a board directory, none of them empty.
C6_BaselineProfilesComplete ==
    Unmerged =>
        \A id \in Range(BaselineIds) :
            /\ DictHas(Registry, id)
            /\ \A f \in RequiredFields :
                   /\ f \in DOMAIN DictGet(Registry, id)
                   /\ DictGet(Registry, id)[f] # ""

C6_Witness ==
    /\ pc = "merge"
    /\ DictHas(Registry, "azteeg-x3-xymin-corexy")
    /\ DictGet(Registry, "azteeg-x3-xymin-corexy").board_directory = "azteeg_x3"
    /\ DictGet(Registry, "zyyx-1280").programmer = "stk500v1"

NoDupNames(ds) ==
    \A i, j \in 1..Len(ds) : DirectiveName(ds[i]) = DirectiveName(ds[j]) => i = j

\* C10: the define list the registry holds for a platform, which is what
\* the build script is handed, names each symbol at most once.
C10_DefineNamesUnique ==
    \A id \in DOMAIN Registry.at :
        "defines" \in DOMAIN DictGet(Registry, id)
            => NoDupNames(DictGet(Registry, id).defines)

(***************************************************************************)
(* Claims about define composition, checked under SpecCompose.             *)
(***************************************************************************)
Composed ==
    /\ pc = "compose"
    /\ cerr = NoError
    /\ ci = Len(dirs)

IsAdd(i) == ~ParseDirective(dirs[i]).neg

Names(i) == DirectiveName(dirs[i])

\* the last directive of the list that speaks of the name n
LastOf(n) ==
    CHOOSE i \in 1..Len(dirs) :
        Names(i) = n /\ \A j \in (i + 1)..Len(dirs) : Names(j) # n

\* the last additive directive of the list for the name n
LastAdd(n) ==
    CHOOSE i \in 1..Len(dirs) :
        /\ Names(i) = n /\ IsAdd(i)
        /\ \A j \in (i + 1)..Len(dirs) : ~(Names(j) = n /\ IsAdd(j))

\* C7: directives are applied in list order.  A name is in the composed set
\* exactly when the last directive that speaks of it is additive; the set
\* names nothing the list does not; ['A', '-A'] composes to the empty set
\* and ['-A', 'A'] to {A}.
C7_DirectivesInOrder ==
    Composed =>
        /\ \A i \in 1..Len(dirs) :
               Names(i) \in MapNames(cmap) <=> IsAdd(LastOf(Names(i)))
        /\ \A n \in MapNames(cmap) : \E i \in 1..Len(dirs) : Names(i) = n
        /\ dirs = << "A", "-A" >> => cmap = << >>
        /\ dirs = << "-A", "A" >> =>
               cmap = << [ name |-> << "A" >>, has |-> FALSE, value |-> << >> ] >>

C7_Witness ==
    /\ Composed
    /\ dirs = << "-A", "A" >>
    /\ MapNames(cmap) = { << "A" >> }

\* C8: the composed value of a name is the value of its last additive
\* directive; ['A=1', 'A=2'] composes to A with the value 2.
C8_LastWriteWins ==
    Composed =>
        /\ \A k \in 1..Len(cmap) :
               /\ \E i \in 1..Len(dirs) : Names(i) = cmap[k].name /\ IsAdd(i)
               /\ cmap[k] = Entry(ParseDirective(dirs[LastAdd(cmap[k].name)]))
        /\ dirs = << "A=1", "A=2" >> =>
               cmap = << [ name |-> << "A" >>, has |-> TRUE, value |-> << "2" >> ] >>

C8_Witness ==
    /\ Composed
    /\ dirs = << "A=1", "A=2" >>
    /\ Len(cmap) = 1
    /\ cmap[1].value = << "2" >>

\* a step that applies a subtractive directive removes the entries of its
\* name, whatever their value and its own, and raises nothing; when the
\* name is not in the mapping, the mapping is unchanged
SubtractiveStep ==
    (pc = "compose" /\ ci' = ci + 1 /\ ParseDirective(dirs[ci + 1]).neg) =>
        /\ cerr' = NoError
        /\ cmap' = SelectSeq(cmap, LAMBDA e : e.name # Names(ci + 1))
        /\ Names(ci + 1) \notin MapNames(cmap) => cmap' = cmap

RemovedWhateverTheValue ==
    Composed =>
        /\ dirs = << "A=1", "-A=2" >> => cmap = << >>
        /\ dirs = << "A=1", "-A" >> => cmap = << >>

\* C9: a subtractive directive removes the symbol by name, whatever value
\* it or the established symbol carries (['A=1', '-A=2'] and ['A=1', '-A']
\* compose to the empty set); for a name that is not established it leaves
\* the composed set as it is, and it raises no error.
C9_RemoveByName == [][SubtractiveStep]_vars /\ []RemovedWhateverTheValue

C9_Witness ==
    /\ Composed
    /\ dirs = << "B", "A=1", "-A=2" >>
    /\ MapNames(cmap) = { << "B" >> }

\* the position of the first malformed directive of the list, 0 if none
FirstBad ==
    IF \A i \in 1..Len(dirs) : ParseDirective(dirs[i]).valid THEN 0
    ELSE CHOOSE i \in 1..Len(dirs) :
             /\ ~ParseDirective(dirs[i]).valid
             /\ \A j \in 1..(i - 1) : ParseDirective(dirs[j]).valid

MalformedNeverPassed == FirstBad # 0 => ci < FirstBad

MalformedIsRejected ==
    (cerr = NoError /\ FirstBad = ci + 1) => (ENABLED ComposeReject /\ ~ENABLED ComposeApply)

FailureNamesDirective ==
    cerr # NoError =>
        /\ cerr.error = "InvalidDefineError"
        /\ FirstBad # 0
        /\ cerr.position = FirstBad
        /\ cerr.directive = dirs[FirstBad]
        /\ cmap = << >>

\* C14: a define list with a malformed directive (no name before '=', or
\* nothing after '-') never composes: the composition stops at the first such
\* directive with InvalidDefineError carrying that directive and its
\* position, yields no mapping, and takes no step afterwards; the directive
\* is neither skipped nor applied.
C14_MalformedDirectiveFails ==
    /\ [](MalformedNeverPassed /\ MalformedIsRejected /\ FailureNamesDirective)
    /\ [][cerr = NoError]_vars

C14_Witness ==
    /\ pc = "compose"
    /\ Len(dirs) = 3
    /\ dirs[2] = "=1"
    /\ cerr = [ error |-> "InvalidDefineError", position |-> 2, directive |-> "=1" ]

(***************************************************************************)
(* The enumeration command on its own: lines 894-898 applied to registries *)
(* of up to MaxKeys ids in every order, the empty one among them, and to   *)
(* the shipped registry.                                                   *)
(***************************************************************************)
EnumIds == { BaselineIds[i] : i \in 1..5 }

EnumDict(ks) == [ keys |-> ks, at |-> [ k \in Range(ks) |-> BaselineProfile(k) ] ]

EnumDicts ==
    { EnumDict(ks) : ks \in { s \in SeqsUpTo(EnumIds, MaxKeys) :
                                \A i, j \in 1..Len(s) : s[i] = s[j] => i = j } }
        \cup { BaselineDict(rev) : rev \in BOOLEAN }

InitEnum ==
    /\ pc = "main"
    /\ \E d \in EnumDicts : heap = << d, EmptyDict >>
    /\ mod_dict = ModDictInit
    /\ tmp_dict = TmpDictInit
    /\ site = [ exists |-> FALSE, stmts |-> << >> ]
    /\ name_main = TRUE
    /\ ip = 0
    /\ err = "none"
    /\ out = << >>
    /\ dirs = << >>
    /\ ci = 0
    /\ cmap = << >>
    /\ cerr = "none"
    /\ calls = NoCalls
    /\ seen = NoneSeen
    /\ listed = << >>

NextEnum == Main

SpecEnum == InitEnum /\ [][NextEnum]_vars

\* the text given to print: the output without the newline print ends it with
Line == SubSeq(out, 1, Len(out) - 1)

\* C13: the enumeration command prints one line; the line holds every id of
\* the registry exactly once, a single blank between consecutive ids and
\* nothing after the last id; for an empty registry the line is empty.
C13_EnumerationLine ==
    (pc = "done" /\ name_main) =>
        LET keys == Registry.keys
        IN  /\ Len(out) = 2 * Len(keys) + (IF Len(keys) = 0 THEN 1 ELSE 0)
            /\ out[Len(out)] = "\n"
            /\ \A i \in 1..Len(keys) : Line[2 * i - 1] = keys[i]
            /\ \A i \in 1..(Len(keys) - 1) : Line[2 * i] = " "
            /\ \A id \in DOMAIN Registry.at :
                   Cardinality({ i \in 1..Len(Line) : Line[i] = id }) = 1
            /\ Len(keys) = 0 => Line = << >>

C13_Witness ==
    /\ pc = "done"
    /\ name_main
    /\ Len(Registry.keys) = 3
    /\ Line = << Registry.keys[1], " ", Registry.keys[2], " ", Registry.keys[3] >>

(***************************************************************************)
(* Claims about calls on the initialized registry, checked under           *)
(* SpecCalls.                                                              *)
(***************************************************************************)
\* the step of caller c is the return of a resolve
Returns(c) == calls[c].op = "resolve" /\ calls'[c].op = "idle"

RegistryUntouched == heap' = heap /\ mod_dict' = mod_dict

UnknownIdIsAnError ==
    \A c \in Callers :
        (calls[c].last.kind = "resolve" /\ ~DictHas(Registry, calls[c].last.id))
            => calls[c].last.value = [ error |-> "UnknownPlatformError",
                                       id    |-> calls[c].last.id ]

FailedLookupLeavesRegistry ==
    \A c \in Callers :
        (Returns(c) /\ ~DictHas(Registry, calls[c].arg)) => RegistryUntouched

\* C11: resolving an id that neither the baseline nor the extension mapping
\* holds ends in the unknown-platform error outcome, never in a profile, and
\* the step in which the lookup fails leaves the registry as it was.
C11_UnknownPlatform == []UnknownIdIsAnError /\ [][FailedLookupLeavesRegistry]_vars

C11_Witness ==
    \E c \in Callers :
        /\ calls[c].last.kind = "resolve"
        /\ calls[c].last.id = "no-such-platform"
        /\ ~DictHas(Registry, "no-such-platform")
        /\ calls[c].last.value.error = "UnknownPlatformError"

SameAsFirstResolve ==
    \A c \in Callers :
        calls[c].last.kind = "resolve"
            => /\ calls[c].last.id \in DOMAIN seen
               /\ calls[c].last.value = seen[calls[c].last.id]

CallLeavesProfiles ==
    (pc = "done" /\ calls' # calls) =>
        \A id \in Range(Registry.keys) :
            /\ DictHas(heap'[mod_dict'.platforms], id)
            /\ DictGet(heap'[mod_dict'.platforms], id) = DictGet(Registry, id)

C15_RequiredFieldsEverywhere ==
    Initialized =>
        \A id \in DOMAIN Registry.at :
            \A f \in RequiredFields :
                /\ f \in DOMAIN Registry.at[id]
                /\ Registry.at[id][f] # ""

\* the steps the top-level code takes, in the order of the text: the dict
\* display (done in the initial state), the isfile test, the exec, the merge
\* loop, the __main__ block
LoadOrder ==
    { << "isfile", "exec" >>, << "isfile", "main" >>, << "exec", "exec" >>,
      << "exec", "failed" >>, << "exec", "merge" >>, << "merge", "main" >>,
      << "main", "done" >>, << "done", "done" >> }

InFixedOrder ==
    /\ << pc, pc' >> \in LoadOrder
    /\ pc' = "exec" => site.exists
    /\ (pc = "exec" /\ pc' = "exec") => ip' = ip + 1
    /\ pc' = "merge" => ip = Len(site.stmts) + 1

OnlyMergeWritesRegistry ==
    /\ mod_dict' = mod_dict
    /\ heap'[mod_dict.platforms] # Registry => (pc = "merge" /\ pc' = "main")

ReadOnlyOnceInitialized ==
    Initialized => heap'[mod_dict'.platforms] = Registry

BaselineBuiltFirst ==
    pc \in { "isfile", "exec", "merge" } =>
        /\ Range(Registry.keys) = Range(BaselineIds)
        /\ Registry.at = BaselineAt

\* C16: the module initializes in the order of its text and once: the
\* baseline dict is complete before anything else runs, the site file, if it
\* exists, is evaluated statement by statement a single time, then the merge
\* loop runs; the merge step is the only one that writes the registry, and
\* once initialization is over no step (of an enumeration or a lookup)
\* changes its ids or profiles.
C16_InitOnceThenReadOnly ==
    /\ []BaselineBuiltFirst
    /\ [][InFixedOrder /\ OnlyMergeWritesRegistry /\ ReadOnlyOnceInitialized]_vars

C16_Witness ==
    /\ pc = "done"
    /\ site.exists
    /\ ip = 3
    /\ DictHas(Registry, "franken-board")
    /\ DictGet(Registry, "mighty_one") = McuOnly
    /\ calls["c1"].last.kind = "enum"
    /\ calls["c2"].last.kind = "resolve"

\* the site file has a statement that cannot be evaluated
BrokenSite ==
    /\ site.exists
    /\ \E i \in 1..Len(site.stmts) : site.stmts[i].op \in { "raise", "syntax" }

FailureStopsLoading ==
    /\ err # "none" => (pc = "failed" /\ site.exists)
    /\ BrokenSite => ~Initialized /\ pc # "merge"
    /\ pc = "failed" =>
           /\ err \in { "SyntaxError", "NameError", "Exception" }
           /\ Registry = BaselineDict(FALSE)
           /\ out = << >>
           /\ calls = NoCalls
           /\ seen = NoneSeen
           /\ listed = << >>

\* C17: when evaluating the site file raises, the exception ends the
\* module's initialization: the merge loop is not run (the registry is the
\* baseline as built), nothing is printed, no caller ever enumerates or
\* resolves, and no step follows the failure, so the evaluation is not
\* tried again.
C17_FailFast == []FailureStopsLoading /\ [][pc # "failed"]_vars

C17_Witness ==
    /\ pc = "failed"
    /\ err = "Exception"
    /\ ip = 2
    /\ DictHas(heap[TmpRef], "franken-board")
    /\ ~DictHas(Registry, "franken-board")

\* the statements of the site file that give the id a profile
Gives(id) ==
    { i \in 1..Len(site.stmts) :
        /\ site.stmts[i].op \in { "assign", "rebind" }
        /\ site.stmts[i].key = id }

\* the profile as the source text gives it: the site file's last one for an
\* id of the extension mapping, the dict display's otherwise
AsWritten(id) ==
    IF Loaded /\ id \in ExtIds
    THEN site.stmts[CHOOSE i \in Gives(id) : \A j \in Gives(id) : j <= i].value
    ELSE BaselineProfile(id)

\* C18: once the module has loaded, every profile of the registry is the
\* value its source gave, field for field and define for define, same
\* strings in the same order: the dict display's for a baseline id, the site
\* file's for an id of the extension mapping.  A define with embedded
\* quoting is the same characters, backslashes and quotes included.
C18_ValuesPassThrough ==
    Initialized =>
        \A id \in DOMAIN Registry.at :
            /\ Registry.at[id] = AsWritten(id)
            /\ "defines" \in DOMAIN Registry.at[id] =>
                   \A i \in 1..Len(Registry.at[id].defines) :
                       Chars(Registry.at[id].defines[i]) = Chars(AsWritten(id).defines[i])

C18_Witness ==
    /\ Loaded
    /\ DictHas(Registry, "franken-board")
    /\ DictGet(Registry, "franken-board") = QuotedBoard
    /\ SubSeq(Chars(DictGet(Registry, "franken-board").defines[1]), 21, 24)
           = << "=", "\\", "\"", "S" >>
    /\ DictGet(Registry, "mighty_one-hyper") = BaselineProfile("mighty_one-hyper")
    /\ SubSeq(Chars(DictGet(Registry, "mighty_one-hyper").defines[8]), 21, 24)
           = << "=", "\\", "\"", "S" >>

\* what a call returns when it runs alone on the registry
Alone(last) ==
    IF last.kind = "enum" THEN Registry.keys
    ELSE ResolveOutcome(FindProfile(Registry, last.id), last.id)

ResultsAsAlone ==
    \A c \in Callers :
        /\ calls[c].last.kind # "none" => calls[c].last.value = Alone(calls[c].last)
        /\ calls[c].op = "enum" =>
               calls[c].acc = SubSeq(Registry.keys, 1, calls[c].pos - 1)
        /\ calls[c].op = "resolve" =>
               calls[c].prof = FindProfile(Registry, calls[c].arg)

CallsWriteNothingShared ==
    pc = "done" => (heap' = heap /\ mod_dict' = mod_dict /\ tmp_dict' = tmp_dict)

\* C19: however the steps of concurrent enumerations and lookups interleave,
\* each call returns what it returns when run alone on the initialized
\* registry, and no step of a call writes the registry or any other state
\* the calls share.
C19_InterleavingsAgree == []ResultsAsAlone /\ [][CallsWriteNothingShared]_vars

\* two enumerations under way at once, at different places
C19_Witness ==
    /\ calls["c1"].op = "enum"
    /\ calls["c2"].op = "enum"
    /\ calls["c1"].pos = 40
    /\ calls["c2"].pos = 7
    /\ DictHas(Registry, "franken-board")

EnumsAgree ==
    \A c \in Callers :
        calls[c].last.kind = "enum" =>
            /\ Len(listed) = 1
            /\ calls[c].last.value = listed[1]
            /\ Len(calls[c].last.value) = Len(Registry.keys)
            /\ calls[c].last.value[1] = Registry.keys[1]

EnumStartsAtFirst ==
    \A c \in Callers :
        (calls[c].op # "enum" /\ calls'[c].op = "enum") =>
            (calls'[c].pos = 1 /\ calls'[c].acc = << >>)

\* C20: every enumeration of the initialized registry yields the ids the
\* first one yielded, in the same order, and every enumeration starts at the
\* first id, also one made by a caller that has enumerated before.
C20_EnumerationRestartable == []EnumsAgree /\ [][EnumStartsAtFirst]_vars

\* a caller has enumerated twice (no resolve was made)
C20_Witness ==
    /\ seen = NoneSeen
    /\ calls["c1"].made = 2
    /\ calls["c1"].op = "idle"
    /\ calls["c1"].last.kind = "enum"
    /\ calls["c1"].last.value = listed[1]
    /\ Len(listed[1]) = 54

(***************************************************************************)
(* Claims about the namespace the site file is evaluated in, checked under *)
(* Spec.                                                                   *)
(***************************************************************************)
\* the statement before ip was an assignment through the name platforms as
\* the loader bound it (no statement before it rebound the name)
AssignedThroughGivenName ==
    /\ pc = "exec"
    /\ ip >= 2
    /\ site.stmts[ip - 1].op = "assign"
    /\ \A j \in 1..(ip - 1) : site.stmts[j].op # "rebind"

SeparateMapping ==
    /\ ExtBound => tmp_dict["platforms"] # mod_dict.platforms
    /\ pc = "isfile" => ExtMap = EmptyDict
    /\ AssignedThroughGivenName =>
           /\ DictHas(ExtMap, site.stmts[ip - 1].key)
           /\ DictGet(ExtMap, site.stmts[ip - 1].key) = site.stmts[ip - 1].value
           /\ Registry \in { BaselineDict(rev) : rev \in BOOLEAN }

EvaluationLeavesRegistry ==
    pc = "exec" => heap'[mod_dict'.platforms] = Registry

KnownIds == DOMAIN Registry.at

BaselineIdsKept ==
    /\ Range(BaselineIds) \subseteq KnownIds
    /\ KnownIds = Range(Registry.keys)
    /\ Len(Registry.keys) = Cardinality(KnownIds)
    /\ Loaded => KnownIds = Range(BaselineIds) \cup ExtIds

IdsOnlyGrow == KnownIds \subseteq DOMAIN heap'[mod_dict'.platforms].at

\* C22: the ids of the registry only grow while the module loads: no step
\* removes an id, and whatever site file has been evaluated and merged, every
\* baseline id is a key of the registry, each key once; after the merge the
\* ids are the baseline's and the extension mapping's.
C22_IdsOnlyGrow == []BaselineIdsKept /\ [][IdsOnlyGrow]_vars

\* a merge that has replaced a baseline id and added a new one
C22_Witness ==
    /\ Loaded
    /\ ExtIds = { "mighty_one", "franken-board" }
    /\ Cardinality(KnownIds) = Len(BaselineIds) + 1
    /\ DictGet(Registry, "mighty_one") # BaselineProfile("mighty_one")

\* the ids the merge has assigned
MergedIds == IF Loaded THEN ExtIds ELSE {}

SameProfile(p, q) ==
    /\ DOMAIN p = DOMAIN q
    /\ \A f \in DOMAIN p \ { "defines" } : p[f] = q[f]
    /\ "defines" \in DOMAIN p =>
           /\ Len(p.defines) = Len(q.defines)
           /\ \A i \in 1..Len(p.defines) : p.defines[i] = q.defines[i]

UntouchedKeepBaseline ==
    \A id \in Range(BaselineIds) \ MergedIds :
        /\ DictHas(Registry, id)
        /\ SameProfile(DictGet(Registry, id), BaselineProfile(id))

MergeWritesOnlyExtIds ==
    pc = "merge" =>
        \A id \in KnownIds \ ExtIds :
            heap'[mod_dict'.platforms].at[id] = Registry.at[id]

\* C23: a baseline id the extension mapping does not have keeps its baseline
\* profile through the merge: the same fields with the same values and the
\* define list entry for entry in the same order; the merge step writes the
\* entries of the extension mapping's ids only.
C23_MergeFrame == []UntouchedKeepBaseline /\ [][MergeWritesOnlyExtIds]_vars

\* mighty_one is overridden, its neighbour mighty_one-hyper is not
C23_Witness ==
    /\ Loaded
    /\ ExtIds = { "mighty_one" }
    /\ DictGet(Registry, "mighty_one") = QuotedBoard
    /\ SameProfile(DictGet(Registry, "mighty_one-hyper"), BaselineProfile("mighty_one-hyper"))
    /\ DictGet(Registry, "mighty_one-hyper").defines[1] = "BUILD_STATS"

(***************************************************************************)
(* Claims about the binding of platforms in tmp_dict, checked under Spec.  *)
(***************************************************************************)
StmtOps(o) == { i \in 1..Len(site.stmts) : site.stmts[i].op = o }

\* the position of the last statement that binds the name anew, 0 if none
LastRebind ==
    IF StmtOps("rebind") = {} THEN 0
    ELSE CHOOSE i \in StmtOps("rebind") : \A j \in StmtOps("rebind") : j <= i

\* the keys of the mapping the name is bound to when the evaluation ends
GivenSinceRebind ==
    { site.stmts[i].key :
        i \in { j \in StmtOps("assign") \cup StmtOps("rebind") : j >= LastRebind } }

StartsEmpty == pc = "isfile" => (ExtBound /\ ExtMap = EmptyDict)

UnboundSkipsMerge ==
    (Loaded /\ ~ExtBound) =>
        /\ StmtOps("del") # {}
        /\ err = "none"
        /\ Registry \in { BaselineDict(rev) : rev \in BOOLEAN }

BoundMergesItsEntries ==
    (Loaded /\ ExtBound) =>
        /\ ExtIds = GivenSinceRebind
        /\ KnownIds = Range(BaselineIds) \cup GivenSinceRebind
        /\ \A k \in GivenSinceRebind : DictGet(Registry, k) = DictGet(ExtMap, k)
        /\ \A id \in Range(BaselineIds) \ GivenSinceRebind :
               DictGet(Registry, id) = BaselineProfile(id)

\* C24: the merge reads what the name platforms is bound to in tmp_dict once
\* the evaluation has ended.  The name starts bound to an empty mapping.  If
\* the site file has deleted the name, the merge is skipped, no exception is
\* raised and the registry is the baseline.  If the file has bound the name
\* to a new mapping, the entries of that mapping are merged and what the
\* file had put into the mapping it was given is not.
C24_MergeReadsBinding == StartsEmpty /\ UnboundSkipsMerge /\ BoundMergesItsEntries

\* an override written before the name was bound anew is not merged
C24_Witness ==
    /\ Loaded
    /\ LastRebind = 2
    /\ site.stmts[1] = [ op |-> "assign", key |-> "mighty_one", value |-> McuOnly ]
    /\ heap[TmpRef].at["mighty_one"] = McuOnly
    /\ ExtIds = { "franken-board" }
    /\ DictGet(Registry, "franken-board") = FrankenBoard
    /\ DictGet(Registry, "mighty_one") = BaselineProfile("mighty_one")

=============================================================================
